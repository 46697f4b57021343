-------------------------- MODULE MCSchemaDdlExecutor --------------------------
(***************************************************************************)
(* Small instances of SchemaDdlExecutor for TLC.                           *)
(***************************************************************************)
EXTENDS SchemaDdlExecutor, TLC

CONSTANTS k1, k2, m1, m2

(* Two commands under one key, the first also as a dry run, and another key. *)
MCRequests ==
  {[key |-> k1, command |-> m1, dryRun |-> FALSE],
   [key |-> k1, command |-> m2, dryRun |-> FALSE],
   [key |-> k1, command |-> m1, dryRun |-> TRUE],
   [key |-> k2, command |-> m2, dryRun |-> FALSE]}

(* At most one call does not make the first request: it may retry the key  *)
(* with another command, dry-run it or use another key.                    *)
Contended ==
  LET first == [key |-> k1, command |-> m1, dryRun |-> FALSE] IN
  \A c, d \in Calls : c # d => first \in {request[c], request[d]}

MCInit == Init /\ Contended

MCSpec == MCInit /\ [][Next]_vars

MCFairSpec == MCSpec /\ Fairness

(* The calls are interchangeable, and so are the connections.              *)
MCSymmetry == Permutations(Calls) \cup Permutations(Conns)
===============================================================================
