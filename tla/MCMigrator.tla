------------------------------- MODULE MCMigrator -------------------------------
(***************************************************************************)
(* A small instance of Migrator: the directory of a release, the same with *)
(* a migration edited, with one more, with one put in between, and with a  *)
(* gap.                                                                    *)
(***************************************************************************)
EXTENDS Migrator

CONSTANTS c1, c2, first, second, third, text, edited

File(v, n, t) == [version |-> v, name |-> n, text |-> t]

Release1 == {File(1, first, text), File(2, second, text)}
Edited   == {File(1, first, text), File(2, second, edited)}
Release2 == Release1 \cup {File(3, third, text)}
Inserted == {File(1, first, text), File(2, third, text), File(3, second, edited)}
Gap      == {File(1, first, text), File(3, third, text)}

MCDirectories == {Release1, Edited, Release2, Inserted, Gap}
=================================================================================
