------------------------------ MODULE MonotoneView ------------------------------
(***************************************************************************)
(* What the served table registry promises of the durable one (D-031 and   *)
(* D-035 of DECISIONS.md): at every moment it is one whole state the       *)
(* durable registry was in, never a mixture, and it never goes back to an  *)
(* older state than it has served before.                                  *)
(***************************************************************************)
EXTENDS Naturals, Sequences

CONSTANTS Tables

VARIABLES
  history,   \* the states of the durable registry, oldest first
  position,  \* which of them is served
  serving    \* the tables served

vars == <<history, position, serving>>

Init ==
  /\ \E initial \in SUBSET Tables : history = <<initial>>
  /\ position = 1
  /\ serving = history[1]

(* The durable registry changes.                                           *)
Record ==
  /\ \E s \in SUBSET Tables : history' = Append(history, s)
  /\ UNCHANGED <<position, serving>>

(* The view moves to a state as new as the one it serves, or newer.        *)
Advance ==
  /\ position' \in position..Len(history)
  /\ serving' = history[position']
  /\ UNCHANGED history

Next == Record \/ Advance

Spec == Init /\ [][Next]_vars
===============================================================================
