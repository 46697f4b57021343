------------------------------ MODULE MCAuthLane ------------------------------
(***************************************************************************)
(* A small instance of AuthLane: one account, one address, one attempt a   *)
(* window of two ticks, and room for one counter, so that a login drops    *)
(* the count of registrations.  Sessions last one tick.                    *)
(***************************************************************************)
EXTENDS AuthLane

CONSTANTS e1, a1
=================================================================================
