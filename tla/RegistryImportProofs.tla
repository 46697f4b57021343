-------------------------- MODULE RegistryImportProofs --------------------------
(***************************************************************************)
(* Proofs about RegistryImport for any number of processes, mappings,      *)
(* configurations, starts and commands: the operator's decisions stand, a  *)
(* process serves a state of the registry, and one that meant to seed it   *)
(* adopts nothing foreign.                                                 *)
(***************************************************************************)
EXTENDS RegistryImport, TLAPS

-------------------------------------------------------------------------------
(* The invariant.                                                          *)

Points == {"down", "state", "rows", "validate", "check", "import", "won", "lost", "lostRows",
           "serve", "up", "failed", "conflict"}

RegistryType ==
  /\ initialized \in BOOLEAN
  /\ exposed \in SUBSET Mappings
  /\ history \in Seq(SUBSET Mappings)
  /\ decided \in [Mappings -> {"none", "exposed", "unexposed"}]

ProcessType ==
  /\ pc \in [Processes -> Points]
  /\ config \in [Processes -> Configs]
  /\ late \in [Processes -> Configs \cup {None}]
  /\ seeding \in [Processes -> BOOLEAN]
  /\ guard \in [Processes -> BOOLEAN]
  /\ rows \in [Processes -> SUBSET Mappings]
  /\ launchedAt \in [Processes -> Nat]

(* The registry is empty and undecided until it is initialized, and then   *)
(* the latest of its states.                                               *)
HistoryInv ==
  /\ ~initialized => exposed = {} /\ Len(history) = 0 /\ \A m \in Mappings : decided[m] = "none"
  /\ initialized => Len(history) > 0 /\ exposed = history[Len(history)]

(* Mappings process p may adopt though it meant to seed the registry.      *)
Own(p, S) == \A m \in S : m \in config[p] \/ decided[m] # "none"

(* What the start of p relies on where it stands.                          *)
StartInv(p) ==
  /\ launchedAt[p] <= Len(history)
  /\ pc[p] = "rows" => seeding[p] = ~guard[p]
  /\ pc[p] \in {"rows", "lostRows"} => (guard[p] => initialized)
  /\ pc[p] \in {"won", "serve", "up"} => initialized
  /\ pc[p] = "won" => Own(p, exposed)
  /\ pc[p] \in {"serve", "up"} =>
       /\ \E n \in 1..Len(history) : n >= launchedAt[p] /\ rows[p] = history[n]
       /\ seeding[p] => Own(p, rows[p])

ImportInv ==
  /\ RegistryType /\ ProcessType
  /\ HistoryInv /\ DecisionsStand
  /\ \A p \in Processes : StartInv(p)

-------------------------------------------------------------------------------
(* The steps.                                                              *)

(* A step that changes of one process only, and nothing of the registry.   *)
LEMMA OneStarts ==
  ASSUME ImportInv, NEW p \in Processes, ProcessType',
         UNCHANGED <<registryVars, decided>>,
         \A q \in Processes \ {p} :
           /\ pc'[q] = pc[q] /\ config'[q] = config[q] /\ seeding'[q] = seeding[q]
           /\ guard'[q] = guard[q] /\ rows'[q] = rows[q] /\ launchedAt'[q] = launchedAt[q],
         StartInv(p)'
  PROVE  ImportInv'
<1>1. RegistryType' /\ HistoryInv' /\ DecisionsStand'
  BY DEF ImportInv, RegistryType, HistoryInv, DecisionsStand, registryVars
<1>2. ASSUME NEW q \in Processes, q # p PROVE StartInv(q)'
  BY <1>2 DEF ImportInv, StartInv, Own, registryVars
<1> QED BY <1>1, <1>2 DEF ImportInv

(* The current state of the registry is one since the launch.              *)
LEMMA CurrentIsState ==
  ASSUME ImportInv, initialized, NEW p \in Processes
  PROVE  \E n \in 1..Len(history) : n >= launchedAt[p] /\ exposed = history[n]
<1>1. Len(history) \in 1..Len(history) /\ Len(history) >= launchedAt[p]
  BY DEF ImportInv, RegistryType, ProcessType, HistoryInv, StartInv
<1> QED BY <1>1 DEF ImportInv, HistoryInv

LEMMA LaunchKeeps ==
  ASSUME ImportInv, NEW p \in Processes, Launch(p)
  PROVE  ImportInv'
<1>1. ProcessType'
  BY DEF ImportInv, RegistryType, ProcessType, Launch, Goto, Points
<1>2. StartInv(p)'
  BY DEF ImportInv, RegistryType, ProcessType, StartInv, Launch, Goto, registryVars
<1> QED BY <1>1, <1>2, OneStarts DEF ImportInv, ProcessType, Launch, Goto

LEMMA ReadStateKeeps ==
  ASSUME ImportInv, NEW p \in Processes, ReadState(p)
  PROVE  ImportInv'
<1>1. ProcessType'
  BY DEF ImportInv, RegistryType, ProcessType, ReadState, Goto, Points
<1>2. StartInv(p)'
  BY DEF ImportInv, RegistryType, ProcessType, StartInv, ReadState, Goto, registryVars
<1> QED BY <1>1, <1>2, OneStarts DEF ImportInv, ProcessType, ReadState, Goto

LEMMA ReadRowsKeeps ==
  ASSUME ImportInv, NEW p \in Processes, ReadRows(p)
  PROVE  ImportInv'
<1>1. ProcessType'
  BY DEF ImportInv, RegistryType, ProcessType, ReadRows, Goto, Points
<1>2. StartInv(p)'
  BY CurrentIsState
     DEF ImportInv, RegistryType, ProcessType, StartInv, ReadRows, Goto, registryVars
<1> QED BY <1>1, <1>2, OneStarts DEF ImportInv, ProcessType, ReadRows, Goto

LEMMA ChecksKeep ==
  ASSUME ImportInv, NEW p \in Processes, Validate(p) \/ Check(p) \/ Serve(p) \/ Fails(p)
  PROVE  ImportInv'
<1>1. UNCHANGED <<registryVars, localVars, late, decided>>
  BY DEF Validate, Check, Serve, Fails
<1>2. PICK point \in {"check", "conflict", "import", "up", "failed"} :
        Goto(p, point) /\ (point = "up" => pc[p] = "serve")
  BY DEF Validate, Check, Serve, Fails
<1>3. ProcessType'
  BY <1>1, <1>2 DEF ImportInv, ProcessType, Goto, Points, localVars
<1>4. StartInv(p)'
  BY <1>1, <1>2 DEF ImportInv, ProcessType, StartInv, Own, Goto, registryVars, localVars
<1> QED BY <1>1, <1>2, <1>3, <1>4, OneStarts DEF ImportInv, ProcessType, Goto, localVars

LEMMA CrashKeeps ==
  ASSUME ImportInv, NEW p \in Processes, Crash(p)
  PROVE  ImportInv'
<1>1. ProcessType'
  BY DEF ImportInv, ProcessType, Crash, Goto, Points, localVars
<1>2. StartInv(p)'
  BY DEF ImportInv, ProcessType, StartInv, Crash, Goto, registryVars, localVars
<1> QED BY <1>1, <1>2, OneStarts DEF ImportInv, ProcessType, Crash, Goto, localVars

LEMMA ImportFailsKeeps ==
  ASSUME ImportInv, NEW p \in Processes, ImportFails(p)
  PROVE  ImportInv'
<1>1. ProcessType'
  BY DEF ImportInv, ProcessType, ImportFails, Goto, Points, localVars
<1>2. StartInv(p)'
  BY DEF ImportInv, ProcessType, StartInv, ImportFails, Goto, registryVars, localVars
<1> QED BY <1>1, <1>2, OneStarts DEF ImportInv, ProcessType, ImportFails, Goto, localVars

LEMMA ReadOwnImportKeeps ==
  ASSUME ImportInv, NEW p \in Processes, ReadOwnImport(p)
  PROVE  ImportInv'
<1>1. ProcessType'
  BY DEF ImportInv, RegistryType, ProcessType, ReadOwnImport, Goto, Points
<1>2. StartInv(p)'
  BY CurrentIsState
     DEF ImportInv, ProcessType, StartInv, Own, ReadOwnImport, Goto, registryVars
<1> QED BY <1>1, <1>2, OneStarts DEF ImportInv, ProcessType, ReadOwnImport, Goto

LEMMA ReadWinnerStateKeeps ==
  ASSUME ImportInv, NEW p \in Processes, ReadWinnerState(p)
  PROVE  ImportInv'
<1>1. ProcessType'
  BY DEF ImportInv, RegistryType, ProcessType, ReadWinnerState, Goto, Points
<1>2. StartInv(p)'
  BY DEF ImportInv, ProcessType, StartInv, ReadWinnerState, Goto, registryVars
<1> QED BY <1>1, <1>2, OneStarts DEF ImportInv, ProcessType, ReadWinnerState, Goto

LEMMA AdoptWinnerKeeps ==
  ASSUME ImportInv, NEW p \in Processes, AdoptWinner(p)
  PROVE  ImportInv'
<1>1. ProcessType'
  BY DEF ImportInv, RegistryType, ProcessType, AdoptWinner, Goto, Points
<1>2. StartInv(p)'
  BY CurrentIsState
     DEF ImportInv, ProcessType, StartInv, Own, AdoptWinner, Goto, registryVars
<1> QED BY <1>1, <1>2, OneStarts DEF ImportInv, ProcessType, AdoptWinner, Goto

(* An import takes effect, while its process waits or after that.          *)
LEMMA ImportKeeps ==
  ASSUME ImportInv, NEW p \in Processes, ImportSucceeds(p) \/ ImportArrives(p)
  PROVE  ImportInv'
<1>1. PICK payload \in Configs :
        /\ Import(payload)
        /\ UNCHANGED <<localVars, decided>>
        /\ \/ pc' = pc
           \/ payload = config[p] /\ Goto(p, "won")
  BY DEF ImportInv, ProcessType, ImportSucceeds, ImportArrives
<1>2. ProcessType'
  <2>1. pc' \in [Processes -> Points]
    BY <1>1 DEF ImportInv, ProcessType, Goto, Points
  <2>2. late' \in [Processes -> Configs \cup {None}]
    BY DEF ImportInv, ProcessType, ImportSucceeds, ImportArrives
  <2> QED BY <1>1, <2>1, <2>2 DEF ImportInv, ProcessType, localVars
<1>3. payload \in SUBSET Mappings /\ history = <<>>
  BY <1>1, ConfigsTyped DEF Import, ImportInv, RegistryType, HistoryInv
<1>4. initialized' = TRUE /\ exposed' = payload /\ history' = <<payload>>
  BY <1>1, <1>3 DEF Import
<1>5. RegistryType' /\ HistoryInv'
  BY <1>1, <1>3, <1>4 DEF ImportInv, RegistryType, HistoryInv
<1>6. DecisionsStand'
  BY <1>1 DEF ImportInv, HistoryInv, DecisionsStand, Import
<1>7. ASSUME NEW q \in Processes PROVE StartInv(q)'
  <2>1. launchedAt[q] = 0 /\ pc[q] \notin {"won", "serve", "up"}
    BY <1>1 DEF Import, ImportInv, RegistryType, ProcessType, HistoryInv, StartInv
  <2>2. launchedAt'[q] <= Len(history')
    BY <1>1, <1>4, <2>1 DEF localVars
  <2>3. CASE q = p /\ payload = config[p] /\ Goto(p, "won")
    BY <1>1, <1>4, <2>2, <2>3 DEF ImportInv, ProcessType, StartInv, Own, Goto, localVars
  <2>4. CASE pc'[q] = pc[q]
    BY <1>1, <1>4, <2>1, <2>2, <2>4 DEF ImportInv, StartInv, localVars
  <2> QED BY <1>1, <2>3, <2>4 DEF ImportInv, ProcessType, Goto
<1> QED BY <1>2, <1>5, <1>6, <1>7 DEF ImportInv

LEMMA CommandKeeps ==
  ASSUME ImportInv, NEW m \in Mappings, NEW word \in {"exposed", "unexposed"}, Command(m, word)
  PROVE  ImportInv'
<1>1. initialized
  BY DEF Command, ImportInv, StartInv
<1>2. exposed' \in SUBSET Mappings
  BY DEF Command, ImportInv, RegistryType
<1>3. Len(history) \in Nat /\ history' \in Seq(SUBSET Mappings)
      /\ Len(history') = Len(history) + 1 /\ history'[Len(history) + 1] = exposed'
      /\ \A n \in 1..Len(history) : history'[n] = history[n]
  BY <1>2 DEF Command, ImportInv, RegistryType
<1>4. decided' \in [Mappings -> {"none", "exposed", "unexposed"}]
      /\ decided'[m] = word /\ \A k \in Mappings \ {m} : decided'[k] = decided[k]
  BY DEF Command, ImportInv, RegistryType
<1>5. UNCHANGED <<initialized, localVars, late, pc>>
  BY DEF Command
<1>6. RegistryType' /\ HistoryInv'
  BY <1>1, <1>2, <1>3, <1>4, <1>5 DEF ImportInv, RegistryType, HistoryInv
<1>7. ProcessType'
  BY <1>5 DEF ImportInv, ProcessType, localVars
<1>8. DecisionsStand'
  <2> SUFFICES ASSUME NEW k \in Mappings, decided'[k] # "none"
               PROVE  k \in exposed' <=> decided'[k] = "exposed"
    BY DEF DecisionsStand
  <2>1. CASE k = m
    BY <2>1, <1>4 DEF Command
  <2>2. CASE k # m
    BY <2>2, <1>4 DEF Command, ImportInv, DecisionsStand
  <2> QED BY <2>1, <2>2
<1>9. ASSUME NEW q \in Processes PROVE StartInv(q)'
  <2>1. StartInv(q) /\ launchedAt[q] \in Nat
    BY DEF ImportInv, ProcessType
  <2>2. pc[q] = "won" => Own(q, exposed)'
    <3> SUFFICES ASSUME pc[q] = "won", NEW k \in exposed'
                 PROVE  k \in config'[q] \/ decided'[k] # "none"
      BY DEF Own
    <3>1. CASE k = m
      BY <3>1, <1>4
    <3>2. CASE k # m
      BY <3>2, <1>2, <1>4, <1>5, <2>1 DEF Command, StartInv, Own, localVars
    <3> QED BY <3>1, <3>2
  <2>3. pc[q] \in {"serve", "up"} =>
          \E n \in 1..Len(history') : n >= launchedAt[q] /\ rows[q] = history'[n]
    BY <1>3, <2>1 DEF StartInv
  <2>4. pc[q] \in {"serve", "up"} /\ seeding[q] => Own(q, rows[q])'
    BY <1>4, <1>5, <2>1 DEF StartInv, Own, localVars, ImportInv, ProcessType
  <2> QED BY <1>1, <1>3, <1>5, <2>1, <2>2, <2>3, <2>4 DEF StartInv, localVars
<1> QED BY <1>6, <1>7, <1>8, <1>9 DEF ImportInv

-------------------------------------------------------------------------------
(* The theorems.                                                           *)

LEMMA ImportInvHolds == Spec => []ImportInv
<1>1. Init => ImportInv
  <2> SUFFICES ASSUME Init PROVE ImportInv
    OBVIOUS
  <2>0. history \in Seq(SUBSET Mappings) /\ Len(history) = 0
    BY DEF Init
  <2>1. RegistryType /\ HistoryInv /\ DecisionsStand
    <3>1. RegistryType
      BY <2>0 DEF Init, RegistryType
    <3>2. HistoryInv
      BY <2>0 DEF Init, HistoryInv
    <3> QED BY <3>1, <3>2 DEF Init, DecisionsStand
  <2>2. ProcessType
    BY DEF Init, ProcessType, Points
  <2>3. ASSUME NEW p \in Processes PROVE StartInv(p)
    <3>1. pc[p] = "down" /\ launchedAt[p] = 0
      BY DEF Init
    <3> QED BY <2>0, <3>1 DEF StartInv
  <2> QED BY <2>1, <2>2, <2>3 DEF ImportInv
<1>2. ImportInv /\ [Next]_vars => ImportInv'
  <2> SUFFICES ASSUME ImportInv, [Next]_vars PROVE ImportInv'
    OBVIOUS
  <2>1. CASE UNCHANGED vars
    BY <2>1 DEF vars, registryVars, localVars, ImportInv, RegistryType, ProcessType,
       HistoryInv, DecisionsStand, StartInv, Own
  <2>2. CASE Next
    BY <2>2, LaunchKeeps, ReadStateKeeps, ReadRowsKeeps, ChecksKeep, CrashKeeps,
       ImportFailsKeeps, ReadOwnImportKeeps, ReadWinnerStateKeeps, AdoptWinnerKeeps,
       ImportKeeps, CommandKeeps DEF Next, StartStep
  <2> QED BY <2>1, <2>2
<1> QED BY <1>1, <1>2, PTL DEF Spec

(* No start, retry or late import adds a table or exposes an unexposed one *)
(* again (import_exposure_registry), however many processes start, fail    *)
(* and die.                                                                *)
THEOREM OperatorDecisionsStand == Spec => []DecisionsStand
<1>1. ImportInv => DecisionsStand
  BY DEF ImportInv
<1> QED BY <1>1, ImportInvHolds, PTL

(* A process that is up serves a state the registry had since its launch   *)
(* (start() in main.ts).                                                   *)
THEOREM ServedStateIsOfRegistry == Spec => []StartsFromRegistry
<1>1. ImportInv => StartsFromRegistry
  BY DEF ImportInv, StartInv, StartsFromRegistry
<1> QED BY <1>1, ImportInvHolds, PTL

(* A process that meant to seed the registry serves no mapping that is     *)
(* neither its own nor the operator's (importInitialExposure).             *)
THEOREM NothingForeignAdopted == Spec => []AdoptsOnlyItsOwn
<1>1. ImportInv => AdoptsOnlyItsOwn
  BY DEF ImportInv, StartInv, Own, AdoptsOnlyItsOwn
<1> QED BY <1>1, ImportInvHolds, PTL
=================================================================================
