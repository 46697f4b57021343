------------------------------- MODULE MCAdminUi -------------------------------
(***************************************************************************)
(* A small instance of AdminUi: two tables and a few of the forms.         *)
(***************************************************************************)
EXTENDS AdminUi

CONSTANTS t1, t2, mine, old

MCMethods == {"renameTable", "unexpose", "renameColumn"}

(* The page a while after sign-in: t1, secured, is shown and cached; t2 is  *)
(* not there.                                                              *)
MCInit ==
  /\ token = mine
  /\ screen = "app"
  /\ route = Detail(t1)
  /\ schema \in [Tables -> TableStates] /\ schema[t2] = None
  /\ schema[t1] # None /\ schema[t1].rls
  /\ content = View("table", t1, schema[t1])
  /\ snapshotCache = None
  /\ tableCache = schema
  /\ timer = None
  /\ forms = <<>> /\ form = None
  /\ requests = {} /\ sent = 0
  /\ log = {} /\ previewed = {}
  /\ others = 0

MCSpec == MCInit /\ [][Next]_vars
=================================================================================
