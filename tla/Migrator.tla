-------------------------------- MODULE Migrator --------------------------------
(***************************************************************************)
(* The migration command (scripts/migrate.ts): it lists the directory,     *)
(* opens one transaction, takes the advisory lock in it, reads what is     *)
(* applied and then reads, compares, runs and records file after file.     *)
(*                                                                         *)
(* Several commands run at once, in one directory that an operator may     *)
(* replace under them.  Each await is a step.  A file is a version, a name *)
(* and a text, which stands for its checksum as well.                      *)
(***************************************************************************)
EXTENDS Naturals, Sequences, FiniteSets

CONSTANTS
  Commands,      \* one for each start of the migration command
  Directories,   \* what the migrations directory may hold
  MaxChanges,    \* bound: times the directory is replaced
  MaxFailures,   \* bound: statements the database refuses
  MaxBreaks,     \* bound: commands whose process or connection dies
  None

ASSUME DirectoriesAssumption ==
  \A d \in Directories :
    /\ IsFiniteSet(d) /\ \A f \in d : f.version \in Nat
    /\ \A f, g \in d : f.name = g.name => f = g

ASSUME NoneAssumption == None \notin Commands

VARIABLES
  directory,
  ran,           \* the migrations that took effect for good, in order
  rows,          \* microjbase.schema_migrations
  holder,        \* who holds the advisory lock
  commands,
  faults         \* the bounds used up

vars == <<directory, ran, rows, holder, commands, faults>>

NoWork == [ran |-> <<>>, rows |-> {}]

(* files: the names listed; texts: what was read, file by file; applied:   *)
(* the rows read; work: what the transaction holds.                        *)
Idle == [phase |-> "off", answer |-> "none", files |-> <<>>, texts |-> <<>>,
         applied |-> {}, work |-> NoWork]

-------------------------------------------------------------------------------
(* listMigrationFiles.                                                     *)

WellNumbered(d) == {f.version : f \in d} = 1..Cardinality(d)

Listed(d) == [i \in 1..Cardinality(d) |-> (CHOOSE f \in d : f.version = i).name]

-------------------------------------------------------------------------------
Init ==
  /\ directory \in Directories
  /\ ran = <<>> /\ rows = {}
  /\ holder = None
  /\ commands = [c \in Commands |-> Idle]
  /\ faults = [changes |-> 0, failures |-> 0, breaks |-> 0]

At(c, phase) == commands[c].phase = phase

Goto(c, phase) == commands' = [commands EXCEPT ![c].phase = phase]

End(c, answer) ==
  commands' = [commands EXCEPT ![c].phase = "done", ![c].answer = answer, ![c].work = NoWork]

Release(c) == holder' = IF holder = c THEN None ELSE holder

(* An error before the connection is made, or making it.                   *)
List(c) ==
  /\ At(c, "off")
  /\ \/ End(c, "failed")
     \/ /\ WellNumbered(directory)
        /\ commands' = [commands EXCEPT ![c].phase = "begin", ![c].files = Listed(directory)]
  /\ UNCHANGED <<directory, ran, rows, holder, faults>>

(* BEGIN, and the lock asked for.                                          *)
Begin(c) ==
  /\ At(c, "begin")
  /\ Goto(c, "lock")
  /\ UNCHANGED <<directory, ran, rows, holder, faults>>

Lock(c) ==
  /\ At(c, "lock")
  /\ holder = None
  /\ holder' = c
  /\ Goto(c, "applied")
  /\ UNCHANGED <<directory, ran, rows, faults>>

(* The registry table is there by then, and read committed sees the rows   *)
(* of the last holder.                                                     *)
ReadApplied(c) ==
  /\ At(c, "applied")
  /\ commands' = [commands EXCEPT ![c].phase = "next", ![c].applied = rows]
  /\ UNCHANGED <<directory, ran, rows, holder, faults>>

(* The file whose turn it is.                                              *)
Current(c) == commands[c].files[Len(commands[c].texts)]

CurrentText(c) == commands[c].texts[Len(commands[c].texts)]

Following(c) == commands[c].files[Len(commands[c].texts) + 1]

(* What the directory holds by now under the name listed before: nothing,  *)
(* a text that is applied, one that differs from it, or a new migration.   *)
ReadFile(c) ==
  /\ At(c, "next")
  /\ Len(commands[c].texts) < Len(commands[c].files)
  /\ \/ /\ \A f \in directory : f.name # Following(c)
        /\ Goto(c, "rollback")
     \/ \E f \in directory :
          /\ f.name = Following(c)
          /\ commands' = [commands EXCEPT
               ![c].texts = Append(@, f.text),
               ![c].phase =
                 IF \E r \in commands[c].applied : r.name = f.name /\ r.text = f.text THEN "next"
                 ELSE IF \E r \in commands[c].applied : r.name = f.name THEN "rollback"
                 ELSE "run"]
  /\ UNCHANGED <<directory, ran, rows, holder, faults>>

RunSql(c) ==
  /\ At(c, "run")
  /\ commands' = [commands EXCEPT ![c].phase = "record",
       ![c].work.ran = Append(@, [name |-> Current(c), text |-> CurrentText(c), by |-> c])]
  /\ UNCHANGED <<directory, ran, rows, holder, faults>>

(* Faulty variant of Record: the text is read once more for its checksum.  *)
RecordRead(c) ==
  /\ At(c, "record")
  /\ \E f \in directory :
       /\ f.name = Current(c)
       /\ commands' = [commands EXCEPT ![c].phase = "next",
            ![c].work.rows = @ \cup {[name |-> f.name, text |-> f.text]}]
  /\ UNCHANGED <<directory, ran, rows, holder, faults>>

(* Faulty variant of Record: every migration is committed on its own.      *)
RecordForGood(c) ==
  /\ At(c, "record")
  /\ ran' = ran \o commands[c].work.ran
  /\ rows' = rows \cup {[name |-> Current(c), text |-> CurrentText(c)]}
  /\ commands' = [commands EXCEPT ![c].phase = "next", ![c].work = NoWork]
  /\ UNCHANGED <<directory, holder, faults>>

(* The file name is UNIQUE.                                                *)
Record(c) ==
  /\ At(c, "record")
  /\ \/ /\ \E r \in rows : r.name = Current(c)
        /\ Goto(c, "rollback")
     \/ /\ \A r \in rows : r.name # Current(c)
        /\ commands' = [commands EXCEPT ![c].phase = "next",
             ![c].work.rows = @ \cup {[name |-> Current(c), text |-> CurrentText(c)]}]
  /\ UNCHANGED <<directory, ran, rows, holder, faults>>

SendCommit(c) ==
  /\ At(c, "next")
  /\ Len(commands[c].texts) = Len(commands[c].files)
  /\ Goto(c, "commit")
  /\ UNCHANGED <<directory, ran, rows, holder, faults>>

TakeEffect(c) ==
  /\ ran' = ran \o commands[c].work.ran
  /\ rows' = rows \cup commands[c].work.rows

Commit(c) ==
  /\ At(c, "commit")
  /\ TakeEffect(c)
  /\ Release(c)
  /\ End(c, "ok")
  /\ UNCHANGED <<directory, faults>>

(* Any statement may be refused; then ROLLBACK follows and the end of      *)
(* the session, which is all that releases the lock if ROLLBACK fails.     *)
StatementFails(c) ==
  /\ faults.failures < MaxFailures
  /\ commands[c].phase \in {"begin", "lock", "applied", "run", "record", "commit"}
  /\ faults' = [faults EXCEPT !.failures = @ + 1]
  /\ Goto(c, "rollback")
  /\ UNCHANGED <<directory, ran, rows, holder>>

(* Faulty variant of Rollback: the lock is the session's, which stays.     *)
RollbackKeeping(c) ==
  /\ At(c, "rollback")
  /\ End(c, "failed")
  /\ UNCHANGED <<directory, ran, rows, holder, faults>>

Rollback(c) ==
  /\ At(c, "rollback")
  /\ End(c, "failed")
  /\ Release(c)
  /\ UNCHANGED <<directory, ran, rows, faults>>

-------------------------------------------------------------------------------
(* The process or its connection dies.  The server notices in its own      *)
(* time; a COMMIT on its way may still take effect.                        *)

Break(c) ==
  /\ faults.breaks < MaxBreaks
  /\ commands[c].phase \notin {"off", "done", "orphan", "committing"}
  /\ faults' = [faults EXCEPT !.breaks = @ + 1]
  /\ commands' = [commands EXCEPT ![c].answer = "failed",
                    ![c].phase = IF At(c, "commit") THEN "committing" ELSE "orphan"]
  /\ UNCHANGED <<directory, ran, rows, holder>>

SessionEnds(c) ==
  /\ \/ /\ commands[c].phase \in {"orphan", "committing"}
        /\ UNCHANGED <<ran, rows>>
     \/ /\ At(c, "committing")
        /\ TakeEffect(c)
  /\ Release(c)
  /\ End(c, "failed")
  /\ UNCHANGED <<directory, faults>>

(* Another checkout takes the directory's place.                           *)
Replace ==
  /\ faults.changes < MaxChanges
  /\ directory' \in Directories \ {directory}
  /\ faults' = [faults EXCEPT !.changes = @ + 1]
  /\ UNCHANGED <<ran, rows, holder, commands>>

(* The command goes on and the server serves it.                           *)
Step(c) ==
  \/ Begin(c) \/ Lock(c) \/ ReadApplied(c) \/ ReadFile(c) \/ RunSql(c) \/ Record(c)
  \/ SendCommit(c) \/ Commit(c) \/ Rollback(c) \/ SessionEnds(c)

Next ==
  \/ \E c \in Commands : List(c) \/ Step(c) \/ StatementFails(c) \/ Break(c)
  \/ Replace

Spec == Init /\ [][Next]_vars

(* Node resumes every await; PostgreSQL serves every statement, grants the *)
(* lock when it is free and ends the sessions of the dead.  No statement   *)
(* of a migration has a time limit.                                        *)
FairSpec == Spec /\ \A c \in Commands : WF_vars(Step(c))

-------------------------------------------------------------------------------
(* Correctness.                                                            *)

(* Every migration that took effect did so once and is recorded with the   *)
(* text that ran, whatever happened to the directory and to the commands   *)
(* (LOCK_KEY, the checksum, UNIQUE).                                       *)
RanOnceAsRecorded ==
  /\ \A i, j \in DOMAIN ran : ran[i].name = ran[j].name => i = j
  /\ rows = {[name |-> ran[i].name, text |-> ran[i].text] : i \in DOMAIN ran}

(* A command that has changed anything, or is answered "ok", finds all it  *)
(* listed applied in the text it read; and what it ran, it ran in order:   *)
(* one transaction around the whole run.                                   *)
RunsAreWhole ==
  \A c \in Commands :
    LET it == commands[c]
        Mine == {i \in DOMAIN ran : ran[i].by = c}
        Place(i) == CHOOSE k \in DOMAIN it.files : it.files[k] = ran[i].name
    IN
    it.answer = "ok" \/ Mine # {} =>
      /\ \A k \in DOMAIN it.files :
           k \in DOMAIN it.texts /\ [name |-> it.files[k], text |-> it.texts[k]] \in rows
      /\ \A i, j \in Mine : i < j => Place(i) < Place(j)

(* Every command ends, whatever the others do: nobody waits for the lock   *)
(* for ever.                                                               *)
EveryRunEnds == \A c \in Commands : commands[c].phase = "begin" ~> commands[c].answer # "none"
=================================================================================
