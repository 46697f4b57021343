--------------------------- MODULE MCRuntimeRegistry ---------------------------
(***************************************************************************)
(* Small instances of RuntimeRegistry for TLC.                             *)
(***************************************************************************)
EXTENDS RuntimeRegistry, TLC

CONSTANTS t1, t2, s1, s2, p1, p2, k1, k2, k3, k4, k5, k6, k7, k8, k9, k10, k11

Command(key, kind, table, layout) ==
  [key |-> key, kind |-> kind, table |-> table, to |-> t2, shape |-> layout, template |-> p1]

ExposeIt == Command(k1, "expose", t1, s1)
UnexposeIt == Command(k2, "unexpose", t1, s1)
ExposeOther == Command(k3, "expose", t2, s1)
AlterIt == Command(k4, "alter", t1, s2)
DropIt == Command(k5, "drop", t1, s1)
CreateIt == Command(k6, "create", t1, s2)
Unforce == Command(k7, "disableRls", t1, s1)
Force == Command(k8, "enableRls", t1, s1)
Unprotect == Command(k9, "removePolicy", t1, s1)
DropOther == Command(k10, "drop", t2, s1)
RenameIt == Command(k11, "rename", t1, s1)
Reuse == Command(k1, "unexpose", t1, s1)

MCRequests ==
  {ExposeIt, UnexposeIt, ExposeOther, AlterIt, DropIt, CreateIt, Unforce, Force, Unprotect,
   DropOther, RenameIt, Reuse}

(* What races with the exposure of a table, three commands at a time; two  *)
(* calls may also retry one command, or reuse the key of another.          *)
MCRaces ==
  {{ExposeIt, AlterIt}, {ExposeIt, Unprotect}, {ExposeIt, UnexposeIt, ExposeOther},
   {ExposeIt, UnexposeIt, AlterIt}, {ExposeIt, DropIt, CreateIt}, {ExposeIt, Unforce, Force},
   {DropOther, RenameIt, ExposeOther}, {ExposeIt, Reuse}}

(* From two tables that could be exposed.                                  *)
MCInit ==
  /\ shape \in [Tables -> Shapes]
  /\ forced = [t \in Tables |-> TRUE]
  /\ policies = [t \in Tables |-> Templates]
  /\ exposed \in SUBSET Tables
  /\ Init
  /\ {request[c] : c \in Calls} \in MCRaces

MCSpec == MCInit /\ [][Next]_vars

MCSymmetry == Permutations(Calls)
===============================================================================
