--------------------------- MODULE MCDataTransactions ---------------------------
(***************************************************************************)
(* Small instances of DataTransactions for TLC.                            *)
(***************************************************************************)
EXTENDS DataTransactions, TLC

CONSTANTS u1, u2, i1, c1, c2

Ask(user, kind) == [user |-> user, kind |-> kind, id |-> i1]

Register == Ask(None, "register")

(* Which requests meet: two users after one row, a writer and a reader, a  *)
(* registration and what may find its connection.                          *)
MCMeetings ==
  {<<Ask(u1, "create"), Ask(u2, "update")>>, <<Ask(u1, "list"), Ask(u2, "delete")>>,
   <<Ask(u1, "update"), Ask(u2, "get")>>, <<Register, Register>>,
   <<Register, Ask(u2, "create")>>}

MCRequests == UNION {{meeting[1], meeting[2]} : meeting \in MCMeetings}

MCInit == Init /\ <<request[c1], request[c2]>> \in MCMeetings

MCFairSpec == MCInit /\ [][Next]_vars /\ Fairness
===============================================================================
