----------------------------- MODULE MigratorProofs -----------------------------
(***************************************************************************)
(* Proofs about Migrator for any number of commands, failures and deaths,  *)
(* and any directories put in each other's place: every migration takes    *)
(* effect once and is recorded with the text that ran, and a run is whole  *)
(* or leaves nothing.                                                      *)
(***************************************************************************)
EXTENDS Migrator, FiniteSetTheorems, TLAPS

-------------------------------------------------------------------------------
(* The invariant.                                                          *)

Names == {f.name : f \in UNION Directories}
Texts == {f.text : f \in UNION Directories}

Row == [name : Names, text : Texts]
Ran == [name : Names, text : Texts, by : Commands]

(* Where a command holds the lock, and where it has read what is applied.  *)
Working == {"next", "run", "record", "commit", "committing"}
Locked == Working \cup {"applied"}

Phases == Locked \cup {"off", "begin", "lock", "rollback", "orphan", "done"}

CommandRecord ==
  [phase : Phases, answer : {"none", "ok", "failed"}, files : Seq(Names), texts : Seq(Texts),
   applied : SUBSET Row, work : [ran : Seq(Ran), rows : SUBSET Row]]

MigratorType ==
  /\ directory \in Directories
  /\ ran \in Seq(Ran) /\ rows \in SUBSET Row
  /\ commands \in [Commands -> CommandRecord]

RowOf(m) == [name |-> m.name, text |-> m.text]

(* How many of the migrations a command ran it has also recorded.          *)
Recorded(it) == IF it.phase = "record" THEN Len(it.work.ran) - 1 ELSE Len(it.work.ran)

(* How many of its files are behind a command.                             *)
Passed(it) == IF it.phase = "run" THEN Len(it.texts) - 1 ELSE Len(it.texts)

(* What a command has done in its transaction: migrations that are not     *)
(* applied, each of one file behind it, no two of a name, each recorded    *)
(* but for the one it is to record.                                        *)
WorkInv(it) ==
  /\ it.applied = rows
  /\ \A i \in 1..Len(it.work.ran) :
       /\ \E k \in 1..Passed(it) : it.work.ran[i].name = it.files[k]
       /\ \A r \in rows : r.name # it.work.ran[i].name
       /\ \A j \in 1..Len(it.work.ran) : it.work.ran[i].name = it.work.ran[j].name => i = j
  /\ it.work.rows = {RowOf(it.work.ran[i]) : i \in 1..Recorded(it)}
  /\ it.phase \in {"run", "record"} => Len(it.texts) > 0
  /\ it.phase = "run" => \A r \in rows : r.name # it.files[Len(it.texts)]
  /\ it.phase = "record" =>
       /\ Len(it.work.ran) > 0
       /\ it.work.ran[Len(it.work.ran)].name = it.files[Len(it.texts)]
       /\ it.work.ran[Len(it.work.ran)].text = it.texts[Len(it.texts)]

(* The files of a command have names of their own.                         *)
FilesInv(it) ==
  /\ \A k, l \in 1..Len(it.files) : it.files[k] = it.files[l] => k = l
  /\ Len(it.texts) <= Len(it.files)

CommandInv(c, it) ==
  /\ FilesInv(it)
  /\ it.phase \in Locked => holder = c
  /\ it.phase \in Working => WorkInv(it)
  /\ it.phase \in {"off", "begin", "lock", "applied"} => it.work = NoWork /\ it.texts = <<>>

MigratorInv ==
  /\ MigratorType
  /\ RanOnceAsRecorded
  /\ \A c \in Commands : CommandInv(c, commands[c])

(* How many of the files read need no more work: they are recorded, as     *)
(* applied or as run.                                                      *)
Settled(it) == IF it.phase \in {"run", "record"} THEN Len(it.texts) - 1 ELSE Len(it.texts)

FileRow(it, k) == [name |-> it.files[k], text |-> it.texts[k]]

(* m stands before l in the files of a command.                            *)
Before(m, l, files) ==
  \A i, j \in 1..Len(files) : m.name = files[i] /\ l.name = files[j] => i < j

Mine(c) == {i \in DOMAIN ran : ran[i].by = c}

WholeRun(c, it) ==
  /\ Len(it.texts) = Len(it.files)
  /\ \A k \in 1..Len(it.files) : FileRow(it, k) \in rows
  /\ \A i \in Mine(c) : \E k \in 1..Len(it.files) : ran[i].name = it.files[k]
  /\ \A i, j \in Mine(c) : i < j => Before(ran[i], ran[j], it.files)

(* What a run still under way has settled, and what it ran so far, in      *)
(* order.                                                                  *)
UnderWay(c, it) ==
  /\ \A k \in 1..Settled(it) : FileRow(it, k) \in rows \cup it.work.rows
  /\ \A i \in 1..Len(it.work.ran) : it.work.ran[i].by = c
  /\ \A i, j \in 1..Len(it.work.ran) : i < j =>
       Before(it.work.ran[i], it.work.ran[j], it.files)
  /\ it.phase \in {"commit", "committing"} => Len(it.texts) = Len(it.files)

(* Nothing is applied by a command before its transaction is, which is the *)
(* end of it.                                                              *)
RunInv(c, it) ==
  /\ it.phase \in Working => UnderWay(c, it)
  /\ it.answer = "ok" => it.phase = "done"
  /\ it.phase # "done" => Mine(c) = {}
  /\ it.answer = "ok" \/ Mine(c) # {} => WholeRun(c, it)

RunsInv == \A c \in Commands : RunInv(c, commands[c])

-------------------------------------------------------------------------------
(* What every step comes down to.                                          *)

(* A command moves on; what is applied stays, and nobody else loses the    *)
(* lock.                                                                   *)
LEMMA OneMoves ==
  ASSUME MigratorInv, NEW c \in Commands, NEW q \in CommandRecord,
         commands' = [commands EXCEPT ![c] = q],
         UNCHANGED <<directory, ran, rows>>,
         \A d \in Commands : d # c /\ holder = d => holder' = d,
         CommandInv(c, q)'
  PROVE  MigratorInv'
<1>1. MigratorType'
  BY DEF MigratorInv, MigratorType
<1>2. RanOnceAsRecorded'
  BY DEF MigratorInv, RanOnceAsRecorded
<1>3. commands'[c] = q /\ \A d \in Commands : d # c => commands'[d] = commands[d]
  BY DEF MigratorInv, MigratorType
<1>4. ASSUME NEW d \in Commands, d # c PROVE CommandInv(d, commands[d])'
  <2>1. CommandInv(d, commands[d])
    BY DEF MigratorInv
  <2> QED BY <1>3, <1>4, <2>1 DEF CommandInv, WorkInv
<1> QED BY <1>1, <1>2, <1>3, <1>4 DEF MigratorInv

LEMMA CommandTyped ==
  ASSUME MigratorInv, NEW c \in Commands
  PROVE  commands[c] \in CommandRecord /\ CommandInv(c, commands[c])
BY DEF MigratorInv, MigratorType

(* The directory as listMigrationFiles reads it.                           *)
LEMMA ListedNames ==
  ASSUME NEW d \in Directories, WellNumbered(d)
  PROVE  /\ Listed(d) \in Seq(Names)
         /\ \A k, l \in 1..Len(Listed(d)) : Listed(d)[k] = Listed(d)[l] => k = l
<1> DEFINE n == Cardinality(d)
           F(i) == CHOOSE f \in d : f.version = i
<1>1. n \in Nat
  BY DirectoriesAssumption, FS_CardinalityType
<1>2. \A i \in 1..n : F(i) \in d /\ F(i).version = i
  <2> SUFFICES ASSUME NEW i \in 1..n PROVE \E f \in d : f.version = i
    OBVIOUS
  <2> QED BY DEF WellNumbered
<1>3. Listed(d) = [i \in 1..n |-> F(i).name]
  BY DEF Listed
<1> HIDE DEF F, n
<1>4. \A i \in 1..n : F(i).name \in Names
  BY <1>2 DEF Names
<1>5. Listed(d) \in Seq(Names) /\ Len(Listed(d)) = n
  BY <1>1, <1>3, <1>4
<1>6. \A k, l \in 1..n : F(k).name = F(l).name => k = l
  BY <1>2, DirectoriesAssumption
<1> QED BY <1>3, <1>5, <1>6

(* Goto and End.                                                           *)
LEMMA Goes ==
  ASSUME MigratorInv, NEW c \in Commands, NEW p \in Phases, Goto(c, p)
  PROVE  \E q \in CommandRecord :
           /\ commands' = [commands EXCEPT ![c] = q]
           /\ q.phase = p /\ q.files = commands[c].files /\ q.texts = commands[c].texts
           /\ q.applied = commands[c].applied /\ q.work = commands[c].work
           /\ q.answer = commands[c].answer
<1>1. commands[c] \in CommandRecord /\ commands \in [Commands -> CommandRecord]
  BY CommandTyped DEF MigratorInv, MigratorType
<1> DEFINE q == [commands[c] EXCEPT !.phase = p]
<1>2. q \in CommandRecord /\ q.phase = p /\ q.files = commands[c].files
      /\ q.texts = commands[c].texts /\ q.applied = commands[c].applied
      /\ q.work = commands[c].work /\ q.answer = commands[c].answer
  BY <1>1 DEF CommandRecord
<1>3. commands' = [commands EXCEPT ![c] = q]
  BY <1>1 DEF Goto
<1> HIDE DEF q
<1> QED BY <1>2, <1>3

LEMMA Ends ==
  ASSUME MigratorInv, NEW c \in Commands, NEW a \in {"ok", "failed"}, End(c, a)
  PROVE  \E q \in CommandRecord :
           /\ commands' = [commands EXCEPT ![c] = q]
           /\ q.phase = "done" /\ q.files = commands[c].files /\ q.texts = commands[c].texts
           /\ q.answer = a
<1>1. commands[c] \in CommandRecord /\ commands \in [Commands -> CommandRecord]
  BY CommandTyped DEF MigratorInv, MigratorType
<1>2. NoWork \in [ran : Seq(Ran), rows : SUBSET Row]
  BY DEF NoWork
<1> DEFINE q == [commands[c] EXCEPT !.phase = "done", !.answer = a, !.work = NoWork]
<1>3. q \in CommandRecord /\ q.phase = "done" /\ q.files = commands[c].files
      /\ q.texts = commands[c].texts /\ q.answer = a
  BY <1>1, <1>2 DEF CommandRecord, Phases
<1>4. commands' = [commands EXCEPT ![c] = q]
  BY <1>1 DEF End
<1> HIDE DEF q
<1> QED BY <1>3, <1>4

(* The directory is listed.                                                *)
LEMMA Lists ==
  ASSUME MigratorInv, NEW c \in Commands, WellNumbered(directory),
         commands' = [commands EXCEPT ![c].phase = "begin", ![c].files = Listed(directory)]
  PROVE  \E q \in CommandRecord :
           /\ commands' = [commands EXCEPT ![c] = q]
           /\ q.phase = "begin" /\ q.files = Listed(directory)
           /\ q.texts = commands[c].texts /\ q.work = commands[c].work
           /\ q.answer = commands[c].answer
<1>1. directory \in Directories /\ commands[c] \in CommandRecord
      /\ commands \in [Commands -> CommandRecord]
  BY CommandTyped DEF MigratorInv, MigratorType
<1> DEFINE q == [commands[c] EXCEPT !.phase = "begin", !.files = Listed(directory)]
<1>2. q \in CommandRecord
  BY <1>1, ListedNames DEF CommandRecord, Phases
<1>3. /\ q.phase = "begin" /\ q.files = Listed(directory)
      /\ q.texts = commands[c].texts /\ q.work = commands[c].work
      /\ q.answer = commands[c].answer
  BY <1>1 DEF CommandRecord
<1>4. commands' = [commands EXCEPT ![c] = q]
  BY <1>1
<1> HIDE DEF q
<1> QED BY <1>2, <1>3, <1>4

(* What is applied is read.                                                *)
LEMMA ReadsApplied ==
  ASSUME MigratorInv, NEW c \in Commands, ReadApplied(c)
  PROVE  \E q \in CommandRecord :
           /\ commands' = [commands EXCEPT ![c] = q]
           /\ q.phase = "next" /\ q.files = commands[c].files /\ q.texts = commands[c].texts
           /\ q.work = commands[c].work /\ q.applied = rows
           /\ q.answer = commands[c].answer
<1>1. commands' = [commands EXCEPT ![c].phase = "next", ![c].applied = rows]
  BY DEF ReadApplied
<1>2. commands[c] \in CommandRecord /\ commands \in [Commands -> CommandRecord]
      /\ rows \in SUBSET Row
  BY CommandTyped DEF MigratorInv, MigratorType
<1> DEFINE q == [commands[c] EXCEPT !.phase = "next", !.applied = rows]
<1>3. q \in CommandRecord
  BY <1>2 DEF CommandRecord, Phases, Locked, Working
<1>4. /\ q.phase = "next" /\ q.files = commands[c].files /\ q.texts = commands[c].texts
      /\ q.work = commands[c].work /\ q.applied = rows
      /\ q.answer = commands[c].answer
  BY <1>2 DEF CommandRecord
<1>5. commands' = [commands EXCEPT ![c] = q]
  BY <1>1, <1>2
<1> HIDE DEF q
<1> QED BY <1>3, <1>4, <1>5

(* The process or its connection dies.                                     *)
LEMMA Breaks ==
  ASSUME MigratorInv, NEW c \in Commands, Break(c)
  PROVE  \E q \in CommandRecord :
           /\ commands' = [commands EXCEPT ![c] = q]
           /\ q.phase = (IF At(c, "commit") THEN "committing" ELSE "orphan")
           /\ q.files = commands[c].files /\ q.texts = commands[c].texts
           /\ q.work = commands[c].work /\ q.applied = commands[c].applied
           /\ q.answer = "failed"
<1>1. commands[c] \in CommandRecord /\ commands \in [Commands -> CommandRecord]
  BY CommandTyped DEF MigratorInv, MigratorType
<1> DEFINE p == IF At(c, "commit") THEN "committing" ELSE "orphan"
           q == [commands[c] EXCEPT !.answer = "failed", !.phase = p]
<1>2. q \in CommandRecord
  BY <1>1 DEF CommandRecord, Phases, Locked, Working
<1>3. /\ q.phase = p /\ q.files = commands[c].files /\ q.texts = commands[c].texts
      /\ q.work = commands[c].work /\ q.applied = commands[c].applied
      /\ q.answer = "failed"
  BY <1>1 DEF CommandRecord
<1>4. commands' = [commands EXCEPT ![c] = q]
  BY <1>1 DEF Break
<1> HIDE DEF q
<1> QED BY <1>2, <1>3, <1>4

(* A file is read: it is gone, applied as it is, applied otherwise or new. *)
LEMMA ReadsFile ==
  ASSUME MigratorInv, NEW c \in Commands, ReadFile(c)
  PROVE  Goto(c, "rollback") \/
         \E f \in directory, p \in {"next", "rollback", "run"}, q \in CommandRecord :
           /\ f.name = commands[c].files[Len(commands[c].texts) + 1]
           /\ p = "run" => \A r \in commands[c].applied : r.name # f.name
           /\ p = "next" => \E r \in commands[c].applied : r.name = f.name /\ r.text = f.text
           /\ commands' = [commands EXCEPT ![c] = q]
           /\ q.phase = p /\ q.files = commands[c].files
           /\ q.texts = Append(commands[c].texts, f.text)
           /\ q.work = commands[c].work /\ q.applied = commands[c].applied
           /\ q.answer = commands[c].answer
<1> DEFINE it == commands[c]
<1>1. it \in CommandRecord /\ commands \in [Commands -> CommandRecord]
      /\ directory \in Directories
  BY CommandTyped DEF MigratorInv, MigratorType
<1>2. SUFFICES ASSUME NEW f \in directory, f.name = Following(c),
                      commands' = [commands EXCEPT
                        ![c].texts = Append(@, f.text),
                        ![c].phase =
                          IF \E r \in commands[c].applied : r.name = f.name /\ r.text = f.text
                          THEN "next"
                          ELSE IF \E r \in commands[c].applied : r.name = f.name
                          THEN "rollback" ELSE "run"]
               PROVE  \E p \in {"next", "rollback", "run"}, q \in CommandRecord :
                        /\ f.name = it.files[Len(it.texts) + 1]
                        /\ p = "run" => \A r \in it.applied : r.name # f.name
                        /\ p = "next" => \E r \in it.applied : r.name = f.name /\ r.text = f.text
                        /\ commands' = [commands EXCEPT ![c] = q]
                        /\ q.phase = p /\ q.files = it.files
                        /\ q.texts = Append(it.texts, f.text)
                        /\ q.work = it.work /\ q.applied = it.applied
                        /\ q.answer = it.answer
  BY DEF ReadFile
<1> DEFINE p == IF \E r \in it.applied : r.name = f.name /\ r.text = f.text THEN "next"
                ELSE IF \E r \in it.applied : r.name = f.name THEN "rollback" ELSE "run"
           q == [it EXCEPT !.texts = Append(@, f.text), !.phase = p]
<1>3. p \in {"next", "rollback", "run"} /\ p \in Phases
  BY DEF Phases, Locked, Working
<1>4. /\ f.name = it.files[Len(it.texts) + 1]
      /\ p = "run" => \A r \in it.applied : r.name # f.name
      /\ p = "next" => \E r \in it.applied : r.name = f.name /\ r.text = f.text
  BY <1>2 DEF Following
<1>5. commands' = [commands EXCEPT ![c] = q]
  BY <1>1, <1>2
<1> HIDE DEF p
<1>6. Append(it.texts, f.text) \in Seq(Texts)
  <2>1. f.text \in Texts
    BY <1>1 DEF Texts
  <2> QED BY <1>1, <2>1 DEF CommandRecord
<1>7. q \in CommandRecord
  BY <1>1, <1>3, <1>6 DEF CommandRecord
<1>8. /\ q.phase = p /\ q.files = it.files /\ q.texts = Append(it.texts, f.text)
      /\ q.work = it.work /\ q.applied = it.applied /\ q.answer = it.answer
  BY <1>1 DEF CommandRecord
<1> HIDE DEF q
<1> QED BY <1>3, <1>4, <1>5, <1>7, <1>8

(* A migration is run.                                                     *)
LEMMA Runs ==
  ASSUME MigratorInv, NEW c \in Commands, RunSql(c)
  PROVE  \E m \in Ran, q \in CommandRecord :
           /\ m.name = commands[c].files[Len(commands[c].texts)]
           /\ m.text = commands[c].texts[Len(commands[c].texts)] /\ m.by = c
           /\ commands' = [commands EXCEPT ![c] = q]
           /\ q.phase = "record" /\ q.files = commands[c].files
           /\ q.texts = commands[c].texts
           /\ q.work.ran = Append(commands[c].work.ran, m)
           /\ q.work.rows = commands[c].work.rows
           /\ q.applied = commands[c].applied /\ q.answer = commands[c].answer
<1> DEFINE it == commands[c]
           n == Len(it.texts)
           m == [name |-> it.files[n], text |-> it.texts[n], by |-> c]
<1>1. it.phase = "run"
      /\ commands' = [commands EXCEPT ![c].phase = "record", ![c].work.ran = Append(@, m)]
  BY DEF RunSql, At, Current, CurrentText
<1>2. it \in CommandRecord /\ commands \in [Commands -> CommandRecord] /\ CommandInv(c, it)
  BY CommandTyped DEF MigratorInv, MigratorType
<1>3. WorkInv(it) /\ FilesInv(it)
  BY <1>1, <1>2 DEF CommandInv, Locked, Working
<1>4. n \in 1..Len(it.files) /\ n \in 1..Len(it.texts)
  BY <1>1, <1>2, <1>3 DEF WorkInv, FilesInv, CommandRecord
<1>5. m \in Ran /\ it.work.ran \in Seq(Ran)
  BY <1>2, <1>4 DEF Ran, CommandRecord
<1>6. m.name = it.files[n] /\ m.text = it.texts[n] /\ m.by = c
  OBVIOUS
<1> DEFINE v == [it.work EXCEPT !.ran = Append(@, m)]
           q == [it EXCEPT !.phase = "record", !.work = v]
<1>7. Append(it.work.ran, m) \in Seq(Ran)
  BY <1>5
<1>8. it.work \in [ran : Seq(Ran), rows : SUBSET Row]
  BY <1>2 DEF CommandRecord
<1> HIDE DEF m
<1>9. v \in [ran : Seq(Ran), rows : SUBSET Row] /\ v.ran = Append(it.work.ran, m)
      /\ v.rows = it.work.rows
  BY <1>7, <1>8
<1>10. commands' = [commands EXCEPT ![c] = q]
  BY <1>1, <1>2
<1> HIDE DEF v
<1>11. q \in CommandRecord
  BY <1>2, <1>9 DEF CommandRecord, Phases, Locked, Working
<1>12. /\ q.phase = "record" /\ q.files = it.files /\ q.texts = it.texts
       /\ q.work = v /\ q.applied = it.applied /\ q.answer = it.answer
  BY <1>2 DEF CommandRecord
<1> HIDE DEF q
<1> QED BY <1>5, <1>6, <1>9, <1>10, <1>11, <1>12

(* A migration is recorded, unless its name is in the table.               *)
LEMMA Records ==
  ASSUME MigratorInv, NEW c \in Commands, Record(c)
  PROVE  Goto(c, "rollback") \/
         \E q \in CommandRecord :
           /\ commands' = [commands EXCEPT ![c] = q]
           /\ q.phase = "next" /\ q.files = commands[c].files /\ q.texts = commands[c].texts
           /\ q.work.ran = commands[c].work.ran
           /\ q.work.rows = commands[c].work.rows
                              \cup {FileRow(commands[c], Len(commands[c].texts))}
           /\ q.applied = commands[c].applied /\ q.answer = commands[c].answer
<1> DEFINE it == commands[c]
           n == Len(it.texts)
           row == FileRow(it, n)
<1>1. it.phase = "record"
  BY DEF Record, At
<1>2. it \in CommandRecord /\ commands \in [Commands -> CommandRecord] /\ CommandInv(c, it)
  BY CommandTyped DEF MigratorInv, MigratorType
<1>3. WorkInv(it) /\ FilesInv(it)
  BY <1>1, <1>2 DEF CommandInv, Locked, Working
<1>4. n \in 1..Len(it.files) /\ n \in 1..Len(it.texts)
  BY <1>1, <1>2, <1>3 DEF WorkInv, FilesInv, CommandRecord
<1>5. row \in Row
  BY <1>2, <1>4 DEF Row, FileRow, CommandRecord
<1>6. SUFFICES ASSUME commands' = [commands EXCEPT ![c].phase = "next",
                                                   ![c].work.rows = @ \cup {row}]
               PROVE  \E q \in CommandRecord :
                        /\ commands' = [commands EXCEPT ![c] = q]
                        /\ q.phase = "next" /\ q.files = it.files /\ q.texts = it.texts
                        /\ q.work.ran = it.work.ran
                        /\ q.work.rows = it.work.rows \cup {row}
                        /\ q.applied = it.applied /\ q.answer = it.answer
  BY DEF Record, Current, CurrentText, FileRow
<1> DEFINE v == [it.work EXCEPT !.rows = @ \cup {row}]
           q == [it EXCEPT !.phase = "next", !.work = v]
<1>7. it.work \in [ran : Seq(Ran), rows : SUBSET Row]
  BY <1>2 DEF CommandRecord
<1> HIDE DEF row
<1>8. v \in [ran : Seq(Ran), rows : SUBSET Row] /\ v.ran = it.work.ran
      /\ v.rows = it.work.rows \cup {row}
  BY <1>5, <1>7
<1>9. commands' = [commands EXCEPT ![c] = q]
  BY <1>2, <1>6
<1> HIDE DEF v
<1>10. q \in CommandRecord
  BY <1>2, <1>8 DEF CommandRecord, Phases, Locked, Working
<1>11. /\ q.phase = "next" /\ q.files = it.files /\ q.texts = it.texts
       /\ q.work = v /\ q.applied = it.applied /\ q.answer = it.answer
  BY <1>2 DEF CommandRecord
<1> HIDE DEF q
<1> QED BY <1>8, <1>9, <1>10, <1>11

(* A command that gives up or is over relies on nothing any more.          *)
LEMMA Over ==
  ASSUME MigratorInv, NEW c \in Commands, NEW q \in CommandRecord,
         q.phase \in {"done", "rollback", "orphan"},
         q.files = commands[c].files, q.texts = commands[c].texts
  PROVE  CommandInv(c, q)'
<1>1. FilesInv(q)
  BY CommandTyped DEF CommandInv, FilesInv
<1>2. q.phase \notin Locked \cup {"off", "begin", "lock", "applied"}
  BY DEF Locked, Working
<1> QED BY <1>1, <1>2 DEF CommandInv, FilesInv, Locked

(* A command that fails or is over without effect.                         *)
LEMMA OverKeeps ==
  ASSUME MigratorInv, NEW c \in Commands, NEW q \in CommandRecord,
         commands' = [commands EXCEPT ![c] = q],
         UNCHANGED <<directory, ran, rows>>,
         q.phase \in {"done", "rollback", "orphan"},
         q.files = commands[c].files, q.texts = commands[c].texts,
         holder' = holder \/ Release(c)
  PROVE  MigratorInv'
<1>1. \A d \in Commands : d # c /\ holder = d => holder' = d
  BY DEF Release
<1> QED BY <1>1, Over, OneMoves

-------------------------------------------------------------------------------
(* The steps.                                                              *)

LEMMA ListKeeps ==
  ASSUME MigratorInv, NEW c \in Commands, List(c)
  PROVE  MigratorInv'
<1>1. UNCHANGED <<directory, ran, rows, holder>> /\ commands[c].phase = "off"
  BY DEF List, At
<1>2. CASE End(c, "failed")
  BY <1>1, <1>2, Ends, OverKeeps
<1>3. CASE /\ WellNumbered(directory)
           /\ commands' = [commands EXCEPT ![c].phase = "begin", ![c].files = Listed(directory)]
  <2>1. directory \in Directories /\ commands[c] \in CommandRecord
        /\ commands \in [Commands -> CommandRecord]
    BY CommandTyped DEF MigratorInv, MigratorType
  <2>2. PICK q \in CommandRecord :
          /\ commands' = [commands EXCEPT ![c] = q]
          /\ q.phase = "begin" /\ q.files = Listed(directory)
          /\ q.texts = commands[c].texts /\ q.work = commands[c].work
    BY <1>3, Lists
  <2>3. q.work = NoWork /\ q.texts = <<>>
    BY <1>1, <2>2, CommandTyped DEF CommandInv
  <2>4. FilesInv(q)
    <3>1. Len(q.texts) <= Len(q.files)
      BY <2>2, <2>3 DEF CommandRecord
    <3> QED BY <1>3, <2>1, <2>2, <3>1, ListedNames DEF FilesInv
  <2>5. CommandInv(c, q)'
    BY <2>2, <2>3, <2>4 DEF CommandInv, FilesInv, Locked, Working
  <2> QED BY <1>1, <2>2, <2>5, OneMoves
<1> QED BY <1>2, <1>3 DEF List

LEMMA BeginKeeps ==
  ASSUME MigratorInv, NEW c \in Commands, Begin(c)
  PROVE  MigratorInv'
<1>1. UNCHANGED <<directory, ran, rows, holder>> /\ commands[c].phase = "begin"
      /\ Goto(c, "lock") /\ "lock" \in Phases
  BY DEF Begin, At, Phases
<1>2. PICK q \in CommandRecord :
        /\ commands' = [commands EXCEPT ![c] = q]
        /\ q.phase = "lock" /\ q.files = commands[c].files /\ q.texts = commands[c].texts
        /\ q.work = commands[c].work
  BY <1>1, Goes
<1>3. CommandInv(c, q)'
  BY <1>1, <1>2, CommandTyped DEF CommandInv, FilesInv, Locked, Working
<1> QED BY <1>1, <1>2, <1>3, OneMoves

LEMMA LockKeeps ==
  ASSUME MigratorInv, NEW c \in Commands, Lock(c)
  PROVE  MigratorInv'
<1>1. UNCHANGED <<directory, ran, rows>> /\ commands[c].phase = "lock"
      /\ Goto(c, "applied") /\ "applied" \in Phases /\ holder = None /\ holder' = c
  BY DEF Lock, At, Phases, Locked
<1>2. PICK q \in CommandRecord :
        /\ commands' = [commands EXCEPT ![c] = q]
        /\ q.phase = "applied" /\ q.files = commands[c].files /\ q.texts = commands[c].texts
        /\ q.work = commands[c].work
  BY <1>1, Goes
<1>3. CommandInv(c, q)'
  BY <1>1, <1>2, CommandTyped DEF CommandInv, FilesInv, Locked, Working
<1> QED BY <1>1, <1>2, <1>3, OneMoves, NoneAssumption

LEMMA ReadAppliedKeeps ==
  ASSUME MigratorInv, NEW c \in Commands, ReadApplied(c)
  PROVE  MigratorInv'
<1>1. UNCHANGED <<directory, ran, rows, holder>> /\ commands[c].phase = "applied"
      /\ commands' = [commands EXCEPT ![c].phase = "next", ![c].applied = rows]
  BY DEF ReadApplied, At
<1>2. commands[c] \in CommandRecord /\ commands \in [Commands -> CommandRecord]
      /\ rows \in SUBSET Row
  BY CommandTyped DEF MigratorInv, MigratorType
<1>3. PICK q \in CommandRecord :
        /\ commands' = [commands EXCEPT ![c] = q]
        /\ q.phase = "next" /\ q.files = commands[c].files /\ q.texts = commands[c].texts
        /\ q.work = commands[c].work /\ q.applied = rows
  BY ReadsApplied
<1>4. CommandInv(c, commands[c]) /\ q.work = NoWork /\ q.texts = <<>> /\ holder = c
  BY <1>1, <1>3, CommandTyped DEF CommandInv, Locked
<1>5. Len(q.work.ran) = 0 /\ q.work.rows = {}
  BY <1>4 DEF NoWork
<1>6. WorkInv(q)'
  BY <1>1, <1>3, <1>5 DEF WorkInv, Recorded
<1>7. CommandInv(c, q)'
  BY <1>1, <1>3, <1>4, <1>6 DEF CommandInv, FilesInv
<1> QED BY <1>1, <1>3, <1>7, OneMoves

LEMMA SendCommitKeeps ==
  ASSUME MigratorInv, NEW c \in Commands, SendCommit(c)
  PROVE  MigratorInv'
<1>1. UNCHANGED <<directory, ran, rows, holder>> /\ commands[c].phase = "next"
      /\ Goto(c, "commit") /\ "commit" \in Phases
  BY DEF SendCommit, At, Phases, Locked, Working
<1>2. PICK q \in CommandRecord :
        /\ commands' = [commands EXCEPT ![c] = q]
        /\ q.phase = "commit" /\ q.files = commands[c].files /\ q.texts = commands[c].texts
        /\ q.work = commands[c].work /\ q.applied = commands[c].applied
  BY <1>1, Goes
<1>3. CommandInv(c, q)'
  BY <1>1, <1>2, CommandTyped
     DEF CommandInv, FilesInv, WorkInv, Recorded, Passed, Locked, Working
<1> QED BY <1>1, <1>2, <1>3, OneMoves

LEMMA FailsKeeps ==
  ASSUME MigratorInv, NEW c \in Commands, StatementFails(c)
  PROVE  MigratorInv'
<1>1. UNCHANGED <<directory, ran, rows, holder>> /\ Goto(c, "rollback")
      /\ "rollback" \in Phases
  BY DEF StatementFails, Phases
<1> QED BY <1>1, Goes, OverKeeps

LEMMA RollbackKeeps ==
  ASSUME MigratorInv, NEW c \in Commands, Rollback(c)
  PROVE  MigratorInv'
<1>1. UNCHANGED <<directory, ran, rows>> /\ End(c, "failed") /\ Release(c)
  BY DEF Rollback
<1> QED BY <1>1, Ends, OverKeeps

LEMMA BreakKeeps ==
  ASSUME MigratorInv, NEW c \in Commands, Break(c)
  PROVE  MigratorInv'
<1>1. UNCHANGED <<directory, ran, rows, holder>>
  BY DEF Break
<1>2. commands[c] \in CommandRecord /\ commands \in [Commands -> CommandRecord]
  BY CommandTyped DEF MigratorInv, MigratorType
<1> DEFINE p == IF At(c, "commit") THEN "committing" ELSE "orphan"
<1>3. PICK q \in CommandRecord :
        /\ commands' = [commands EXCEPT ![c] = q]
        /\ q.phase = p /\ q.files = commands[c].files /\ q.texts = commands[c].texts
        /\ q.work = commands[c].work /\ q.applied = commands[c].applied
  BY Breaks
<1>4. CASE commands[c].phase # "commit"
  BY <1>1, <1>3, <1>4, OverKeeps DEF At
<1>5. CASE commands[c].phase = "commit"
  <2>1. CommandInv(c, q)'
    BY <1>1, <1>3, <1>5, CommandTyped
       DEF At, CommandInv, FilesInv, WorkInv, Recorded, Passed, Locked, Working
  <2> QED BY <1>1, <1>3, <2>1, OneMoves
<1> QED BY <1>4, <1>5

LEMMA ReplaceKeeps ==
  ASSUME MigratorInv, Replace
  PROVE  MigratorInv'
<1>1. UNCHANGED <<ran, rows, holder, commands>> /\ directory' \in Directories
  BY DEF Replace
<1> QED BY <1>1
   DEF MigratorInv, MigratorType, RanOnceAsRecorded, CommandInv, WorkInv

LEMMA ReadFileKeeps ==
  ASSUME MigratorInv, NEW c \in Commands, ReadFile(c)
  PROVE  MigratorInv'
<1> DEFINE it == commands[c]
           n == Len(it.texts)
<1>1. UNCHANGED <<directory, ran, rows, holder>> /\ it.phase = "next" /\ n < Len(it.files)
  BY DEF ReadFile, At
<1>2. it \in CommandRecord /\ commands \in [Commands -> CommandRecord]
      /\ directory \in Directories /\ CommandInv(c, it)
  BY CommandTyped DEF MigratorInv, MigratorType
<1>3. CASE Goto(c, "rollback")
  BY <1>1, <1>3, Goes, OverKeeps DEF Phases
<1>4. ASSUME NEW f \in directory, NEW p \in {"next", "rollback", "run"},
             NEW q \in CommandRecord, f.name = it.files[n + 1],
             p = "run" => \A r \in it.applied : r.name # f.name,
             commands' = [commands EXCEPT ![c] = q],
             q.phase = p, q.files = it.files, q.texts = Append(it.texts, f.text),
             q.work = it.work, q.applied = it.applied
      PROVE  MigratorInv'
  <2>2. n \in Nat /\ Len(q.texts) = n + 1 /\ Len(it.files) \in Nat
    BY <1>2, <1>4 DEF CommandRecord
  <2>3. FilesInv(q)
    BY <1>1, <1>2, <1>4, <2>2 DEF CommandInv, FilesInv
  <2>4. WorkInv(it) /\ holder = c
    BY <1>1, <1>2 DEF CommandInv, Locked, Working
  <2>5. CASE p = "rollback"
    <3>1. CommandInv(c, q)'
      BY <1>4, <2>3, <2>5 DEF CommandInv, FilesInv, Locked, Working
    <3> QED BY <1>1, <1>4, <3>1, OneMoves
  <2>6. CASE p \in {"next", "run"}
    <3>1. Passed(q) \in {n, n + 1} /\ Passed(it) = n /\ Recorded(q) = Recorded(it)
      BY <1>1, <1>4, <2>2, <2>6 DEF Passed, Recorded
    <3>2. \A i \in 1..Len(q.work.ran) :
            /\ \E k \in 1..Passed(q) : q.work.ran[i].name = q.files[k]
            /\ \A r \in rows : r.name # q.work.ran[i].name
            /\ \A j \in 1..Len(q.work.ran) : q.work.ran[i].name = q.work.ran[j].name => i = j
      <4>1. 1..n \subseteq 1..Passed(q)
        BY <2>2, <3>1
      <4> QED BY <1>4, <2>4, <3>1, <4>1 DEF WorkInv
    <3>3. p = "run" => \A r \in rows : r.name # q.files[n + 1]
      BY <1>4, <1>4, <2>4 DEF WorkInv
    <3>4. WorkInv(q)'
      BY <1>1, <1>4, <2>2, <2>4, <2>6, <3>1, <3>2, <3>3 DEF WorkInv
    <3>5. CommandInv(c, q)'
      BY <1>1, <1>4, <2>3, <2>4, <2>6, <3>4 DEF CommandInv, FilesInv, Locked, Working
    <3> QED BY <1>1, <1>4, <3>5, OneMoves
  <2> QED BY <2>5, <2>6
<1> QED BY <1>3, <1>4, ReadsFile

LEMMA RunSqlKeeps ==
  ASSUME MigratorInv, NEW c \in Commands, RunSql(c)
  PROVE  MigratorInv'
<1> DEFINE it == commands[c]
           n == Len(it.texts)
           w == Len(it.work.ran)
<1>1. UNCHANGED <<directory, ran, rows, holder>> /\ it.phase = "run"
  BY DEF RunSql, At
<1>2. it \in CommandRecord /\ commands \in [Commands -> CommandRecord] /\ CommandInv(c, it)
  BY CommandTyped DEF MigratorInv, MigratorType
<1>3. WorkInv(it) /\ FilesInv(it) /\ holder = c
  BY <1>1, <1>2 DEF CommandInv, Locked, Working
<1>4. n \in 1..Len(it.files) /\ n \in 1..Len(it.texts) /\ w \in Nat
  BY <1>1, <1>2, <1>3 DEF WorkInv, FilesInv, CommandRecord
<1>5. it.work.ran \in Seq(Ran)
  BY <1>2 DEF CommandRecord
<1>6. PICK m \in Ran, q \in CommandRecord :
        /\ m.name = it.files[n] /\ m.text = it.texts[n] /\ m.by = c
        /\ commands' = [commands EXCEPT ![c] = q]
        /\ q.phase = "record" /\ q.files = it.files /\ q.texts = it.texts
        /\ q.work.ran = Append(it.work.ran, m) /\ q.work.rows = it.work.rows
        /\ q.applied = it.applied
  BY Runs
<1>7. /\ Len(q.work.ran) = w + 1 /\ q.work.ran[w + 1] = m
      /\ \A i \in 1..w : q.work.ran[i] = it.work.ran[i]
  BY <1>5, <1>6
<1>8. Passed(q) = n /\ Passed(it) = n - 1 /\ Recorded(q) = w /\ Recorded(it) = w
  BY <1>1, <1>4, <1>6, <1>7 DEF Passed, Recorded
<1>9. \A i \in 1..w : \E k \in 1..(n - 1) : it.work.ran[i].name = it.files[k]
  BY <1>3, <1>8 DEF WorkInv
<1>10. \A i \in 1..w : it.work.ran[i].name # m.name
  BY <1>3, <1>4, <1>6, <1>9 DEF FilesInv
<1>11. \A i \in 1..(w + 1) :
         /\ \E k \in 1..n : q.work.ran[i].name = q.files[k]
         /\ \A r \in rows : r.name # q.work.ran[i].name
         /\ \A j \in 1..(w + 1) : q.work.ran[i].name = q.work.ran[j].name => i = j
  <2> SUFFICES ASSUME NEW i \in 1..(w + 1)
               PROVE  /\ \E k \in 1..n : q.work.ran[i].name = q.files[k]
                      /\ \A r \in rows : r.name # q.work.ran[i].name
                      /\ \A j \in 1..(w + 1) : q.work.ran[i].name = q.work.ran[j].name => i = j
    OBVIOUS
  <2>1. CASE i = w + 1
    <3>1. q.work.ran[i].name = q.files[n] /\ n \in 1..n
      BY <1>4, <1>6, <1>7, <2>1
    <3>2. \A r \in rows : r.name # q.work.ran[i].name
      BY <1>1, <1>3, <1>6, <3>1 DEF WorkInv
    <3>3. \A j \in 1..(w + 1) : q.work.ran[i].name = q.work.ran[j].name => i = j
      <4> SUFFICES ASSUME NEW j \in 1..w PROVE q.work.ran[i].name # q.work.ran[j].name
        BY <1>4, <2>1
      <4> QED BY <1>7, <1>10, <2>1
    <3> QED BY <3>1, <3>2, <3>3
  <2>2. CASE i # w + 1
    <3>1. i \in 1..w /\ q.work.ran[i] = it.work.ran[i]
      BY <1>4, <1>7, <2>2
    <3>2. \E k \in 1..n : q.work.ran[i].name = q.files[k]
      BY <1>4, <1>6, <1>9, <3>1
    <3>3. \A r \in rows : r.name # q.work.ran[i].name
      BY <1>3, <3>1 DEF WorkInv
    <3>4. \A j \in 1..(w + 1) : q.work.ran[i].name = q.work.ran[j].name => i = j
      <4> SUFFICES ASSUME NEW j \in 1..(w + 1), q.work.ran[i].name = q.work.ran[j].name
                   PROVE  i = j
        OBVIOUS
      <4>1. j # w + 1
        BY <1>7, <1>10, <3>1
      <4>2. j \in 1..w
        BY <1>4, <4>1
      <4> QED BY <1>3, <1>7, <3>1, <4>2 DEF WorkInv
    <3> QED BY <3>2, <3>3, <3>4
  <2> QED BY <2>1, <2>2
<1>12. q.work.rows = {RowOf(q.work.ran[i]) : i \in 1..w}
  BY <1>3, <1>6, <1>7, <1>8 DEF WorkInv
<1>13. WorkInv(q)'
  <2>1. q.applied = rows /\ Len(q.texts) > 0
    BY <1>3, <1>4, <1>6 DEF WorkInv
  <2>2. q.work.ran[w + 1].name = q.files[n] /\ q.work.ran[w + 1].text = q.texts[n]
    BY <1>6, <1>7
  <2>3. \A i \in 1..Len(q.work.ran) :
          /\ \E k \in 1..Passed(q) : q.work.ran[i].name = q.files[k]
          /\ \A r \in rows : r.name # q.work.ran[i].name
          /\ \A j \in 1..Len(q.work.ran) : q.work.ran[i].name = q.work.ran[j].name => i = j
    BY <1>7, <1>8, <1>11
  <2>4. q.work.rows = {RowOf(q.work.ran[i]) : i \in 1..Recorded(q)}
    BY <1>8, <1>12
  <2>5. Len(q.work.ran) > 0 /\ Len(q.work.ran) = w + 1 /\ Len(q.texts) = n
    BY <1>4, <1>6, <1>7
  <2> QED BY <1>1, <1>6, <2>1, <2>2, <2>3, <2>4, <2>5 DEF WorkInv
<1>14. CommandInv(c, q)'
  BY <1>1, <1>3, <1>6, <1>13 DEF CommandInv, FilesInv, Locked, Working
<1> QED BY <1>1, <1>6, <1>14, OneMoves

LEMMA RecordKeeps ==
  ASSUME MigratorInv, NEW c \in Commands, Record(c)
  PROVE  MigratorInv'
<1> DEFINE it == commands[c]
           n == Len(it.texts)
           w == Len(it.work.ran)
           row == FileRow(it, n)
<1>1. UNCHANGED <<directory, ran, rows, holder>> /\ it.phase = "record"
  BY DEF Record, At
<1>2. it \in CommandRecord /\ commands \in [Commands -> CommandRecord] /\ CommandInv(c, it)
  BY CommandTyped DEF MigratorInv, MigratorType
<1>3. WorkInv(it) /\ FilesInv(it) /\ holder = c
  BY <1>1, <1>2 DEF CommandInv, Locked, Working
<1>4. CASE Goto(c, "rollback")
  BY <1>1, <1>4, Goes, OverKeeps DEF Phases
<1>5. ASSUME NEW q \in CommandRecord,
             commands' = [commands EXCEPT ![c] = q],
             q.phase = "next", q.files = it.files, q.texts = it.texts,
             q.work.ran = it.work.ran, q.work.rows = it.work.rows \cup {row},
             q.applied = it.applied
      PROVE  MigratorInv'
  <2>1. n \in 1..Len(it.files) /\ n \in 1..Len(it.texts) /\ w \in Nat /\ w > 0
    BY <1>1, <1>2, <1>3 DEF WorkInv, FilesInv, CommandRecord
  <2>2. row = RowOf(it.work.ran[w])
    BY <1>1, <1>3 DEF WorkInv, RowOf, FileRow
  <2>3. Passed(q) = n /\ Passed(it) = n /\ Recorded(q) = w /\ Recorded(it) = w - 1
    BY <1>1, <1>5 DEF Passed, Recorded
  <2>4. q.work.rows = {RowOf(q.work.ran[i]) : i \in 1..w}
    <3>1. it.work.rows = {RowOf(it.work.ran[i]) : i \in 1..(w - 1)}
      BY <1>3, <2>3 DEF WorkInv
    <3>2. 1..w = 1..(w - 1) \cup {w}
      BY <2>1
    <3> HIDE DEF row
    <3> QED BY <2>2, <1>5, <3>1, <3>2
  <2>5. \A i \in 1..Len(q.work.ran) :
          /\ \E k \in 1..Passed(q) : q.work.ran[i].name = q.files[k]
          /\ \A r \in rows : r.name # q.work.ran[i].name
          /\ \A j \in 1..Len(q.work.ran) : q.work.ran[i].name = q.work.ran[j].name => i = j
    BY <1>3, <1>5, <2>3 DEF WorkInv
  <2>6. WorkInv(q)'
    BY <1>1, <1>3, <1>5, <2>3, <2>4, <2>5 DEF WorkInv
  <2>7. CommandInv(c, q)'
    BY <1>1, <1>3, <1>5, <2>6 DEF CommandInv, FilesInv, Locked, Working
  <2> QED BY <1>1, <1>5, <2>7, OneMoves
<1> QED BY <1>4, <1>5, Records

(* The transaction takes effect: RanOnceAsRecorded of what it adds.        *)
LEMMA EffectsAreWhole ==
  ASSUME MigratorInv, NEW c \in Commands, WorkInv(commands[c]),
         commands[c].phase \in {"commit", "committing"}, TakeEffect(c)
  PROVE  ran' \in Seq(Ran) /\ rows' \in SUBSET Row /\ RanOnceAsRecorded'
<1> DEFINE W == commands[c].work.ran
           n == Len(ran)
           w == Len(W)
<1>1. ran \in Seq(Ran) /\ W \in Seq(Ran) /\ rows \in SUBSET Row
      /\ commands[c].work.rows \in SUBSET Row
  BY CommandTyped DEF CommandRecord, MigratorInv, MigratorType
<1>2. ran' = ran \o W /\ rows' = rows \cup commands[c].work.rows
  BY DEF TakeEffect
<1>3. commands[c].work.rows = {RowOf(W[i]) : i \in 1..w}
  BY DEF WorkInv, Recorded
<1>4. /\ \A i \in 1..w : \A r \in rows : r.name # W[i].name
      /\ \A i, j \in 1..w : W[i].name = W[j].name => i = j
  BY DEF WorkInv
<1>5. /\ \A i, j \in 1..n : ran[i].name = ran[j].name => i = j
      /\ rows = {RowOf(ran[i]) : i \in 1..n}
  BY <1>1 DEF MigratorInv, RanOnceAsRecorded, RowOf
<1>6. \A i \in 1..n, j \in 1..w : ran[i].name # W[j].name
  <2> SUFFICES ASSUME NEW i \in 1..n, NEW j \in 1..w PROVE ran[i].name # W[j].name
    OBVIOUS
  <2>1. RowOf(ran[i]) \in rows /\ RowOf(ran[i]).name = ran[i].name
    BY <1>5 DEF RowOf
  <2> QED BY <1>4, <2>1
<1> HIDE DEF W
<1>7. /\ ran' \in Seq(Ran) /\ Len(ran') = n + w /\ n \in Nat /\ w \in Nat
      /\ DOMAIN ran' = 1..(n + w)
      /\ \A i \in 1..n : ran'[i] = ran[i]
      /\ \A i \in 1..w : ran'[n + i] = W[i]
  BY <1>1, <1>2
<1>8. \A i \in 1..(n + w) : i \in 1..n \/ \E k \in 1..w : i = n + k
  <2> SUFFICES ASSUME NEW i \in 1..(n + w), i \notin 1..n
               PROVE  \E k \in 1..w : i = n + k
    OBVIOUS
  <2>1. i - n \in 1..w /\ i = n + (i - n)
    BY <1>7
  <2> QED BY <2>1
<1>9. ASSUME NEW i \in 1..(n + w), NEW j \in 1..(n + w), ran'[i].name = ran'[j].name
      PROVE  i = j
  <2>1. CASE i \in 1..n /\ j \in 1..n
    BY <1>5, <1>7, <1>9, <2>1
  <2>2. ASSUME i \in 1..n, NEW k \in 1..w, j = n + k PROVE FALSE
    BY <1>6, <1>7, <1>9, <2>2
  <2>3. ASSUME j \in 1..n, NEW k \in 1..w, i = n + k PROVE FALSE
    BY <1>6, <1>7, <1>9, <2>3
  <2>4. ASSUME NEW k \in 1..w, NEW l \in 1..w, i = n + k, j = n + l PROVE i = j
    BY <1>4, <1>7, <1>9, <2>4
  <2> QED BY <1>8, <2>1, <2>2, <2>3, <2>4
<1>10. rows' = {RowOf(ran'[i]) : i \in 1..(n + w)}
  <2>1. \A i \in 1..n : i \in 1..(n + w)
    BY <1>7
  <2>2. \A i \in 1..w : n + i \in 1..(n + w)
    BY <1>7
  <2>3. \A x : x \in rows' <=> (\E i \in 1..n : x = RowOf(ran[i])) \/ (\E i \in 1..w : x = RowOf(W[i]))
    BY <1>2, <1>3, <1>5
  <2>4. ASSUME NEW x \in rows' PROVE \E i \in 1..(n + w) : x = RowOf(ran'[i])
    BY <1>7, <2>1, <2>2, <2>3
  <2>5. ASSUME NEW i \in 1..(n + w) PROVE RowOf(ran'[i]) \in rows'
    BY <1>7, <1>8, <2>3
  <2> QED BY <2>4, <2>5
<1>11. rows' \in SUBSET Row
  BY <1>1, <1>2
<1>12. RanOnceAsRecorded'
  BY <1>7, <1>9, <1>10 DEF RanOnceAsRecorded, RowOf
<1> QED BY <1>7, <1>11, <1>12

LEMMA EffectKeeps ==
  ASSUME MigratorInv, NEW c \in Commands, NEW a \in {"ok", "failed"},
         commands[c].phase \in {"commit", "committing"},
         TakeEffect(c), Release(c), End(c, a), UNCHANGED directory
  PROVE  MigratorInv'
<1>1. WorkInv(commands[c]) /\ holder = c
  BY CommandTyped DEF CommandInv, Locked, Working
<1>2. ran' \in Seq(Ran) /\ rows' \in SUBSET Row /\ RanOnceAsRecorded'
  BY <1>1, EffectsAreWhole
<1>3. PICK q \in CommandRecord :
        /\ commands' = [commands EXCEPT ![c] = q]
        /\ q.phase = "done" /\ q.files = commands[c].files /\ q.texts = commands[c].texts
  BY Ends
<1>4. MigratorType'
  BY <1>2, <1>3 DEF MigratorInv, MigratorType
<1>5. CommandInv(c, q)'
  BY <1>3, Over
<1>6. ASSUME NEW d \in Commands, d # c PROVE CommandInv(d, commands[d])'
  <2>1. CommandInv(d, commands[d]) /\ commands'[d] = commands[d]
    BY <1>3, <1>6 DEF MigratorInv, MigratorType
  <2>2. commands[d].phase \notin Locked
    BY <1>1, <1>6, <2>1 DEF CommandInv
  <2> QED BY <2>1, <2>2 DEF CommandInv, Locked
<1>7. commands'[c] = q
  BY <1>3 DEF MigratorInv, MigratorType
<1> QED BY <1>2, <1>4, <1>5, <1>6, <1>7 DEF MigratorInv

LEMMA CommitKeeps ==
  ASSUME MigratorInv, NEW c \in Commands, Commit(c)
  PROVE  MigratorInv'
BY EffectKeeps DEF Commit, At

LEMMA SessionEndsKeeps ==
  ASSUME MigratorInv, NEW c \in Commands, SessionEnds(c)
  PROVE  MigratorInv'
<1>1. Release(c) /\ End(c, "failed") /\ UNCHANGED directory
  BY DEF SessionEnds
<1>2. CASE UNCHANGED <<ran, rows>>
  BY <1>1, <1>2, Ends, OverKeeps
<1>3. CASE commands[c].phase = "committing" /\ TakeEffect(c)
  BY <1>1, <1>3, EffectKeeps
<1> QED BY <1>2, <1>3 DEF SessionEnds, At

-------------------------------------------------------------------------------
(* The theorem.                                                            *)

LEMMA MigratorInvHolds == Spec => []MigratorInv
<1>1. Init => MigratorInv
  <2> SUFFICES ASSUME Init PROVE MigratorInv
    OBVIOUS
  <2>1. ran \in Seq(Ran) /\ rows \in SUBSET Row /\ DOMAIN ran = {} /\ rows = {}
    BY DEF Init
  <2>2. Idle \in CommandRecord
    <3>1. NoWork \in [ran : Seq(Ran), rows : SUBSET Row]
      BY DEF NoWork
    <3> QED BY <3>1 DEF Idle, CommandRecord, Phases
  <2>3. Idle.phase = "off" /\ Idle.files = <<>> /\ Idle.texts = <<>> /\ Idle.work = NoWork
    BY DEF Idle
  <2> HIDE DEF Idle
  <2>4. MigratorType
    BY <2>1, <2>2 DEF Init, MigratorType
  <2>5. RanOnceAsRecorded
    BY <2>1 DEF RanOnceAsRecorded
  <2>6. ASSUME NEW c \in Commands PROVE CommandInv(c, commands[c])
    <3>1. commands[c] = Idle
      BY DEF Init
    <3>2. FilesInv(Idle)
      BY <2>3 DEF FilesInv
    <3> QED BY <2>3, <3>1, <3>2 DEF CommandInv, Locked, Working
  <2> QED BY <2>4, <2>5, <2>6 DEF MigratorInv
<1>2. MigratorInv /\ [Next]_vars => MigratorInv'
  <2> SUFFICES ASSUME MigratorInv, [Next]_vars PROVE MigratorInv'
    OBVIOUS
  <2>1. CASE UNCHANGED vars
    BY <2>1 DEF vars, MigratorInv, MigratorType, RanOnceAsRecorded, CommandInv, WorkInv
  <2>2. CASE Next
    BY <2>2, ListKeeps, BeginKeeps, LockKeeps, ReadAppliedKeeps, ReadFileKeeps, RunSqlKeeps,
       RecordKeeps, SendCommitKeeps, CommitKeeps, FailsKeeps, RollbackKeeps, BreakKeeps,
       SessionEndsKeeps, ReplaceKeeps DEF Next, Step
  <2> QED BY <2>1, <2>2
<1> QED BY <1>1, <1>2, PTL DEF Spec

(* Every migration that took effect did so once and is recorded with the   *)
(* text that ran (LOCK_KEY, the checksum, UNIQUE), whatever commands run   *)
(* at once, fail or die, and whatever directory is put in place meanwhile. *)
THEOREM MigrationsRunOnceAsRecorded == Spec => []RanOnceAsRecorded
<1>1. MigratorInv => RanOnceAsRecorded
  BY DEF MigratorInv
<1> QED BY <1>1, MigratorInvHolds, PTL

-------------------------------------------------------------------------------
(* Runs are whole: RunsInv, step by step.                                  *)

(* A command moves on and what is applied stays.                           *)
LEMMA OneRuns ==
  ASSUME MigratorInv, RunsInv, NEW c \in Commands, NEW q \in CommandRecord,
         commands' = [commands EXCEPT ![c] = q],
         UNCHANGED <<ran, rows>>, RunInv(c, q)
  PROVE  RunsInv'
<1>1. commands'[c] = q /\ \A d \in Commands : d # c => commands'[d] = commands[d]
  BY DEF MigratorInv, MigratorType
<1>2. ASSUME NEW d \in Commands PROVE RunInv(d, commands'[d])
  BY <1>1 DEF RunsInv
<1>3. ASSUME NEW d \in Commands, NEW it \in CommandRecord, RunInv(d, it) PROVE RunInv(d, it)'
  BY <1>3 DEF RunInv, UnderWay, WholeRun, Mine
<1>4. ASSUME NEW d \in Commands PROVE commands'[d] \in CommandRecord
  BY DEF MigratorInv, MigratorType
<1>5. ASSUME NEW d \in Commands PROVE RunInv(d, commands[d])'
  <2>1. PICK it \in CommandRecord : it = commands'[d]
    BY <1>4
  <2>2. RunInv(d, it)'
    BY <1>2, <1>3, <2>1
  <2> QED BY <2>1, <2>2
<1> QED BY <1>5 DEF RunsInv

(* A command that is not at work, and not answered "ok".                   *)
LEMMA Rests ==
  ASSUME MigratorInv, RunsInv, NEW c \in Commands, NEW q \in CommandRecord,
         commands' = [commands EXCEPT ![c] = q], UNCHANGED <<ran, rows>>,
         commands[c].phase # "done", q.phase \notin Working,
         q.answer \in {"failed", commands[c].answer}
  PROVE  RunsInv'
<1>1. RunInv(c, commands[c])
  BY DEF RunsInv
<1>2. RunInv(c, q)
  BY <1>1 DEF RunInv
<1> QED BY <1>2, OneRuns

(* A command at work.                                                      *)
LEMMA WorksOn ==
  ASSUME MigratorInv, RunsInv, NEW c \in Commands, NEW q \in CommandRecord,
         commands' = [commands EXCEPT ![c] = q], UNCHANGED <<ran, rows>>,
         commands[c].phase # "done", q.phase # "done",
         q.answer \in {"failed", commands[c].answer}, UnderWay(c, q)
  PROVE  RunsInv'
<1>1. RunInv(c, commands[c])
  BY DEF RunsInv
<1>2. RunInv(c, q)
  BY <1>1 DEF RunInv
<1> QED BY <1>2, OneRuns

LEMMA ListRuns ==
  ASSUME MigratorInv, RunsInv, NEW c \in Commands, List(c)
  PROVE  RunsInv'
<1>1. UNCHANGED <<ran, rows>> /\ commands[c].phase # "done"
  BY DEF List, At
<1>2. CASE End(c, "failed")
  BY <1>1, <1>2, Ends, Rests DEF Working
<1>3. CASE /\ WellNumbered(directory)
           /\ commands' = [commands EXCEPT ![c].phase = "begin", ![c].files = Listed(directory)]
  BY <1>1, <1>3, Lists, Rests DEF Working
<1> QED BY <1>2, <1>3 DEF List

LEMMA GoesAndRests ==
  ASSUME MigratorInv, RunsInv, NEW c \in Commands, UNCHANGED <<ran, rows>>,
         commands[c].phase # "done",
         NEW p \in {"lock", "applied", "rollback"}, Goto(c, p)
  PROVE  RunsInv'
<1>1. p \in Phases /\ p \notin Working
  BY DEF Phases, Locked, Working
<1> QED BY <1>1, Goes, Rests

LEMMA BeginRuns ==
  ASSUME MigratorInv, RunsInv, NEW c \in Commands, Begin(c)
  PROVE  RunsInv'
BY GoesAndRests DEF Begin, At

LEMMA LockRuns ==
  ASSUME MigratorInv, RunsInv, NEW c \in Commands, Lock(c)
  PROVE  RunsInv'
BY GoesAndRests DEF Lock, At

LEMMA FailsRuns ==
  ASSUME MigratorInv, RunsInv, NEW c \in Commands, StatementFails(c)
  PROVE  RunsInv'
BY GoesAndRests DEF StatementFails

LEMMA RollbackRuns ==
  ASSUME MigratorInv, RunsInv, NEW c \in Commands, Rollback(c)
  PROVE  RunsInv'
BY Ends, Rests DEF Rollback, At, Working

LEMMA ReadAppliedRuns ==
  ASSUME MigratorInv, RunsInv, NEW c \in Commands, ReadApplied(c)
  PROVE  RunsInv'
<1>1. UNCHANGED <<ran, rows>> /\ commands[c].phase = "applied"
  BY DEF ReadApplied, At
<1>2. PICK q \in CommandRecord :
        /\ commands' = [commands EXCEPT ![c] = q]
        /\ q.phase = "next" /\ q.texts = commands[c].texts /\ q.work = commands[c].work
        /\ q.answer = commands[c].answer
  BY ReadsApplied
<1>3. q.work = NoWork /\ q.texts = <<>>
  BY <1>1, <1>2, CommandTyped DEF CommandInv
<1>4. Len(q.work.ran) = 0 /\ Len(q.texts) = 0
  BY <1>3 DEF NoWork
<1>5. UnderWay(c, q)
  BY <1>2, <1>4 DEF UnderWay, Settled
<1> QED BY <1>1, <1>2, <1>5, WorksOn

(* The file read is applied as it is, or is the one to run.                *)
LEMMA ReadFileRuns ==
  ASSUME MigratorInv, RunsInv, NEW c \in Commands, ReadFile(c)
  PROVE  RunsInv'
<1> DEFINE it == commands[c]
           n == Len(it.texts)
<1>1. UNCHANGED <<ran, rows>> /\ it.phase = "next"
  BY DEF ReadFile, At
<1>2. CASE Goto(c, "rollback")
  BY <1>1, <1>2, GoesAndRests
<1>3. ASSUME NEW f \in directory, NEW p \in {"next", "rollback", "run"}, NEW q \in CommandRecord,
             f.name = it.files[n + 1],
             p = "next" => \E r \in it.applied : r.name = f.name /\ r.text = f.text,
             commands' = [commands EXCEPT ![c] = q],
             q.phase = p, q.files = it.files, q.texts = Append(it.texts, f.text),
             q.work = it.work, q.answer = it.answer
      PROVE  RunsInv'
  <2>1. it \in CommandRecord /\ WorkInv(it) /\ UnderWay(c, it) /\ rows \subseteq Row
    BY <1>1, CommandTyped DEF CommandInv, RunsInv, RunInv, Working, MigratorInv, MigratorType
  <2>2. /\ n \in Nat /\ Len(q.texts) = n + 1 /\ q.texts[n + 1] = f.text
        /\ \A k \in 1..n : q.texts[k] = it.texts[k]
    BY <1>3, <2>1 DEF CommandRecord
  <2>3. CASE p = "rollback"
    BY <1>1, <1>3, <2>3, Rests DEF Working
  <2>4. CASE p \in {"next", "run"}
    <3>1. \A k \in 1..n : FileRow(q, k) \in rows \cup q.work.rows
      BY <1>1, <1>3, <2>1, <2>2 DEF UnderWay, Settled, FileRow
    <3>2. p = "next" => FileRow(q, n + 1) \in rows
      <4> SUFFICES ASSUME p = "next" PROVE FileRow(q, n + 1) \in rows
        OBVIOUS
      <4>1. PICK r \in rows : r.name = f.name /\ r.text = f.text
        BY <1>3, <2>1 DEF WorkInv
      <4>2. r = [name |-> f.name, text |-> f.text]
        BY <2>1, <4>1 DEF Row
      <4> QED BY <1>3, <2>2, <4>2 DEF FileRow
    <3>3. \A k \in 1..Settled(q) : FileRow(q, k) \in rows \cup q.work.rows
      <4>1. CASE p = "next"
        <5>1. Settled(q) = n + 1
          BY <1>3, <2>2, <4>1 DEF Settled
        <5> QED BY <2>2, <3>1, <3>2, <4>1, <5>1
      <4>2. CASE p = "run"
        <5>1. Settled(q) = n
          BY <1>3, <2>2, <4>2 DEF Settled
        <5> QED BY <3>1, <5>1
      <4> QED BY <2>4, <4>1, <4>2
    <3>4. UnderWay(c, q)
      BY <1>3, <2>1, <2>4, <3>3 DEF UnderWay
    <3> QED BY <1>1, <1>3, <2>4, <3>4, WorksOn
  <2> QED BY <2>3, <2>4
<1> QED BY <1>2, <1>3, ReadsFile

(* What is run next comes after all that ran.                              *)
LEMMA RunSqlRuns ==
  ASSUME MigratorInv, RunsInv, NEW c \in Commands, RunSql(c)
  PROVE  RunsInv'
<1> DEFINE it == commands[c]
           n == Len(it.texts)
           w == Len(it.work.ran)
<1>1. UNCHANGED <<ran, rows>> /\ it.phase = "run"
  BY DEF RunSql, At
<1>2. it \in CommandRecord /\ WorkInv(it) /\ FilesInv(it) /\ UnderWay(c, it)
  BY <1>1, CommandTyped DEF CommandInv, RunsInv, RunInv, Working
<1>3. PICK m \in Ran, q \in CommandRecord :
        /\ m.name = it.files[n] /\ m.by = c
        /\ commands' = [commands EXCEPT ![c] = q]
        /\ q.phase = "record" /\ q.files = it.files /\ q.texts = it.texts
        /\ q.work.ran = Append(it.work.ran, m) /\ q.work.rows = it.work.rows
        /\ q.answer = it.answer
  BY Runs
<1>4. n \in 1..Len(it.files) /\ w \in Nat /\ Len(it.files) \in Nat /\ it.work.ran \in Seq(Ran)
  BY <1>1, <1>2 DEF WorkInv, FilesInv, CommandRecord
<1>5. /\ Len(q.work.ran) = w + 1 /\ q.work.ran[w + 1] = m
      /\ \A i \in 1..w : q.work.ran[i] = it.work.ran[i]
  BY <1>3, <1>4
<1>6. ASSUME NEW i \in 1..w PROVE Before(it.work.ran[i], m, it.files)
  <2>1. PICK k \in 1..(n - 1) : it.work.ran[i].name = it.files[k]
    BY <1>1, <1>2 DEF WorkInv, Passed
  <2>2. k \in 1..Len(it.files) /\ k < n
    BY <1>4
  <2>3. \A x, y \in 1..Len(it.files) : it.files[x] = it.files[y] => x = y
    BY <1>2 DEF FilesInv
  <2>4. ASSUME NEW x \in 1..Len(it.files), NEW y \in 1..Len(it.files),
               it.work.ran[i].name = it.files[x], m.name = it.files[y]
        PROVE  x < y
    <3>1. x = k /\ y = n
      BY <1>3, <1>4, <2>1, <2>2, <2>3, <2>4
    <3> QED BY <2>2, <3>1
  <2> QED BY <2>4 DEF Before
<1>7. \A i \in 1..(w + 1) : i \in 1..w \/ i = w + 1
  BY <1>4
<1>8. \A i, j \in 1..(w + 1) : i < j => Before(q.work.ran[i], q.work.ran[j], q.files)
  <2> SUFFICES ASSUME NEW i \in 1..(w + 1), NEW j \in 1..(w + 1), i < j
               PROVE  Before(q.work.ran[i], q.work.ran[j], it.files)
    BY <1>3
  <2>1. i \in 1..w
    BY <1>4
  <2>2. CASE j = w + 1
    BY <1>5, <1>6, <2>1, <2>2
  <2>3. CASE j \in 1..w
    BY <1>2, <1>5, <2>1, <2>3 DEF UnderWay
  <2> QED BY <1>7, <2>2, <2>3
<1>9. \A i \in 1..(w + 1) : q.work.ran[i].by = c
  BY <1>2, <1>3, <1>5, <1>7 DEF UnderWay
<1>10. \A k \in 1..Settled(q) : FileRow(q, k) \in rows \cup q.work.rows
  BY <1>1, <1>2, <1>3 DEF UnderWay, Settled, FileRow
<1>11. UnderWay(c, q)
  BY <1>3, <1>5, <1>8, <1>9, <1>10 DEF UnderWay
<1> QED BY <1>1, <1>3, <1>11, WorksOn

LEMMA RecordRuns ==
  ASSUME MigratorInv, RunsInv, NEW c \in Commands, Record(c)
  PROVE  RunsInv'
<1> DEFINE it == commands[c]
           n == Len(it.texts)
<1>1. UNCHANGED <<ran, rows>> /\ it.phase = "record"
  BY DEF Record, At
<1>2. it \in CommandRecord /\ UnderWay(c, it)
  BY <1>1, CommandTyped DEF RunsInv, RunInv, Working
<1>3. CASE Goto(c, "rollback")
  BY <1>1, <1>3, GoesAndRests
<1>4. ASSUME NEW q \in CommandRecord,
             commands' = [commands EXCEPT ![c] = q],
             q.phase = "next", q.files = it.files, q.texts = it.texts,
             q.work.ran = it.work.ran, q.work.rows = it.work.rows \cup {FileRow(it, n)},
             q.answer = it.answer
      PROVE  RunsInv'
  <2>1. n \in Nat /\ Settled(it) = n - 1 /\ Settled(q) = n
    BY <1>1, <1>2, <1>4 DEF Settled, CommandRecord
  <2>2. \A k \in 1..n : k \in 1..(n - 1) \/ k = n
    BY <2>1
  <2>3. \A k \in 1..n : FileRow(q, k) = FileRow(it, k)
    BY <1>4 DEF FileRow
  <2>4. \A k \in 1..n : FileRow(q, k) \in rows \cup q.work.rows
    BY <1>2, <1>4, <2>1, <2>2, <2>3 DEF UnderWay
  <2>5. UnderWay(c, q)
    BY <1>2, <1>4, <2>1, <2>4 DEF UnderWay
  <2> QED BY <1>1, <1>4, <2>5, WorksOn
<1> QED BY <1>3, <1>4, Records

LEMMA SendCommitRuns ==
  ASSUME MigratorInv, RunsInv, NEW c \in Commands, SendCommit(c)
  PROVE  RunsInv'
<1>1. UNCHANGED <<ran, rows>> /\ commands[c].phase = "next" /\ Goto(c, "commit")
      /\ Len(commands[c].texts) = Len(commands[c].files) /\ "commit" \in Phases
  BY DEF SendCommit, At, Phases, Locked, Working
<1>2. PICK q \in CommandRecord :
        /\ commands' = [commands EXCEPT ![c] = q]
        /\ q.phase = "commit" /\ q.files = commands[c].files /\ q.texts = commands[c].texts
        /\ q.work = commands[c].work /\ q.answer = commands[c].answer
  BY <1>1, Goes
<1>3. UnderWay(c, commands[c])
  BY <1>1 DEF RunsInv, RunInv, Working
<1>4. UnderWay(c, q)
  BY <1>1, <1>2, <1>3 DEF UnderWay, Settled, FileRow
<1> QED BY <1>1, <1>2, <1>4, WorksOn

LEMMA BreakRuns ==
  ASSUME MigratorInv, RunsInv, NEW c \in Commands, Break(c)
  PROVE  RunsInv'
<1>1. UNCHANGED <<ran, rows>> /\ commands[c].phase # "done"
  BY DEF Break
<1>2. PICK q \in CommandRecord :
        /\ commands' = [commands EXCEPT ![c] = q]
        /\ q.phase = (IF At(c, "commit") THEN "committing" ELSE "orphan")
        /\ q.files = commands[c].files /\ q.texts = commands[c].texts
        /\ q.work = commands[c].work /\ q.answer = "failed"
  BY Breaks
<1>3. CASE commands[c].phase # "commit"
  BY <1>1, <1>2, <1>3, Rests DEF At, Working
<1>4. CASE commands[c].phase = "commit"
  <2>1. UnderWay(c, commands[c])
    BY <1>4 DEF RunsInv, RunInv, Working
  <2>2. UnderWay(c, q) /\ q.phase # "done"
    BY <1>2, <1>4, <2>1 DEF At, UnderWay, Settled, FileRow
  <2> QED BY <1>1, <1>2, <2>2, WorksOn
<1> QED BY <1>3, <1>4

(* A transaction takes effect: the run is whole, and everybody else finds  *)
(* more applied, nothing of it their own.                                  *)
LEMMA EffectRuns ==
  ASSUME MigratorInv, RunsInv, NEW c \in Commands, NEW a \in {"ok", "failed"},
         commands[c].phase \in {"commit", "committing"}, TakeEffect(c), End(c, a)
  PROVE  RunsInv'
<1> DEFINE it == commands[c]
           W == it.work.ran
           n == Len(ran)
           w == Len(W)
<1>1. /\ it \in CommandRecord /\ WorkInv(it) /\ FilesInv(it) /\ UnderWay(c, it) /\ Mine(c) = {}
      /\ ran \in Seq(Ran)
  BY CommandTyped
     DEF CommandInv, RunsInv, RunInv, Locked, Working, MigratorInv, MigratorType
<1>2. PICK q \in CommandRecord :
        /\ commands' = [commands EXCEPT ![c] = q]
        /\ q.phase = "done" /\ q.files = it.files /\ q.texts = it.texts
  BY Ends
<1>3. W \in Seq(Ran) /\ Len(it.texts) = Len(it.files) /\ Len(it.files) \in Nat
  BY <1>1 DEF UnderWay, CommandRecord
<1>4. ran' = ran \o W /\ rows' = rows \cup it.work.rows
  BY DEF TakeEffect
<1>5. commands'[c] = q /\ \A d \in Commands : d # c => commands'[d] = commands[d]
  BY <1>2 DEF MigratorInv, MigratorType
<1>6. /\ \A k \in 1..Len(it.files) : FileRow(it, k) \in rows'
      /\ \A i \in 1..w : W[i].by = c
      /\ \A i, j \in 1..w : i < j => Before(W[i], W[j], it.files)
      /\ \A i \in 1..w : \E k \in 1..Len(it.files) : W[i].name = it.files[k]
  BY <1>1, <1>3, <1>4 DEF UnderWay, WorkInv, Settled, Passed
<1> HIDE DEF W
<1>7. /\ n \in Nat /\ w \in Nat /\ DOMAIN ran = 1..n /\ DOMAIN ran' = 1..(n + w)
      /\ \A i \in 1..n : ran'[i] = ran[i]
      /\ \A i \in 1..w : ran'[n + i] = W[i]
  BY <1>1, <1>3, <1>4
<1>8. \A i \in 1..(n + w) : i \in 1..n \/ (i - n \in 1..w /\ i = n + (i - n))
  BY <1>7
<1>9. ASSUME NEW i \in Mine(c)' PROVE i - n \in 1..w /\ ran'[i] = W[i - n] /\ i \in Int
  <2>1. i \in 1..(n + w) /\ ran'[i].by = c
    BY <1>7 DEF Mine
  <2>2. i \notin 1..n
    BY <1>1, <1>7, <2>1 DEF Mine
  <2> QED BY <1>7, <1>8, <2>1, <2>2
<1>10. WholeRun(c, q)'
  <2>1. \A k \in 1..Len(q.files) : FileRow(q, k) \in rows'
    BY <1>2, <1>6 DEF FileRow
  <2>2. \A i \in Mine(c)' : \E k \in 1..Len(q.files) : ran'[i].name = q.files[k]
    BY <1>2, <1>6, <1>9
  <2>3. ASSUME NEW i \in Mine(c)', NEW j \in Mine(c)', i < j
        PROVE  Before(ran'[i], ran'[j], q.files)
    <3>1. i - n < j - n
      BY <1>7, <1>9, <2>3
    <3> QED BY <1>2, <1>6, <1>9, <3>1
  <2> QED BY <1>2, <1>3, <2>1, <2>2, <2>3 DEF WholeRun, Mine
<1>11. RunInv(c, q)'
  BY <1>2, <1>10 DEF RunInv, Working
<1>12. ASSUME NEW d \in Commands, d # c PROVE RunInv(d, commands[d])'
  <2>1. RunInv(d, commands[d]) /\ commands'[d] = commands[d]
    BY <1>5, <1>12 DEF RunsInv
  <2>2. Mine(d)' = Mine(d) /\ \A i \in Mine(d) : ran'[i] = ran[i]
    <3>1. ASSUME NEW i \in Mine(d)' PROVE i \in Mine(d)
      <4>1. i \in 1..(n + w) /\ ran'[i].by = d
        BY <1>7 DEF Mine
      <4>2. i \notin 1..n => ran'[i].by = c
        BY <1>6, <1>7, <1>8, <4>1
      <4>3. i \in 1..n
        BY <1>12, <4>1, <4>2
      <4> QED BY <1>7, <4>1, <4>3 DEF Mine
    <3>2. \A i \in 1..n : i \in 1..(n + w)
      BY <1>7
    <3>3. ASSUME NEW i \in Mine(d) PROVE i \in Mine(d)' /\ ran'[i] = ran[i]
      BY <1>7, <3>2 DEF Mine
    <3> QED BY <3>1, <3>3
  <2>3. rows \subseteq rows'
    BY <1>4
  <2>4. UnderWay(d, commands[d]) => UnderWay(d, commands[d])'
    BY <2>1, <2>3 DEF UnderWay, Settled, FileRow
  <2>5. WholeRun(d, commands[d]) => WholeRun(d, commands[d])'
    BY <2>1, <2>2, <2>3 DEF WholeRun, FileRow
  <2> QED BY <2>1, <2>2, <2>4, <2>5 DEF RunInv
<1>13. RunInv(c, commands[c])'
  BY <1>5, <1>11
<1> QED BY <1>12, <1>13 DEF RunsInv

LEMMA CommitRuns ==
  ASSUME MigratorInv, RunsInv, NEW c \in Commands, Commit(c)
  PROVE  RunsInv'
BY EffectRuns DEF Commit, At

LEMMA SessionEndsRuns ==
  ASSUME MigratorInv, RunsInv, NEW c \in Commands, SessionEnds(c)
  PROVE  RunsInv'
<1>1. End(c, "failed")
  BY DEF SessionEnds
<1>2. CASE UNCHANGED <<ran, rows>> /\ commands[c].phase \in {"orphan", "committing"}
  BY <1>1, <1>2, Ends, Rests DEF Working
<1>3. CASE commands[c].phase = "committing" /\ TakeEffect(c)
  BY <1>1, <1>3, EffectRuns
<1> QED BY <1>2, <1>3 DEF SessionEnds, At

LEMMA RunsInvHolds == Spec => []RunsInv
<1>1. Init => RunsInv
  <2> SUFFICES ASSUME Init, NEW c \in Commands PROVE RunInv(c, commands[c])
    BY DEF RunsInv
  <2>1. commands[c].phase = "off" /\ commands[c].answer = "none" /\ DOMAIN ran = {}
    BY DEF Init, Idle
  <2> QED BY <2>1 DEF RunInv, Mine, Working
<1>2. MigratorInv /\ RunsInv /\ [Next]_vars => RunsInv'
  <2> SUFFICES ASSUME MigratorInv, RunsInv, [Next]_vars PROVE RunsInv'
    OBVIOUS
  <2>1. CASE UNCHANGED vars
    BY <2>1 DEF vars, RunsInv, RunInv, UnderWay, WholeRun, Mine
  <2>2. CASE Replace
    BY <2>2 DEF Replace, RunsInv, RunInv, UnderWay, WholeRun, Mine
  <2>3. CASE Next
    BY <2>2, <2>3, ListRuns, BeginRuns, LockRuns, ReadAppliedRuns, ReadFileRuns, RunSqlRuns,
       RecordRuns, SendCommitRuns, CommitRuns, FailsRuns, RollbackRuns, BreakRuns,
       SessionEndsRuns DEF Next, Step
  <2> QED BY <2>1, <2>3
<1> QED BY <1>1, <1>2, MigratorInvHolds, PTL DEF Spec

(* A command that has changed anything, or is answered "ok", finds all it  *)
(* listed applied in the text it read, and ran what it ran in order, for   *)
(* any number of commands, failures and deaths: one transaction around the *)
(* whole run, and the lock for as long.                                    *)
THEOREM MigrationRunsAreWhole == Spec => []RunsAreWhole
<1>1. MigratorInv /\ RunsInv => RunsAreWhole
  <2> SUFFICES ASSUME MigratorInv, RunsInv, NEW c \in Commands,
                      commands[c].answer = "ok" \/ Mine(c) # {}
               PROVE
       /\ \A k \in DOMAIN commands[c].files :
            /\ k \in DOMAIN commands[c].texts
            /\ [name |-> commands[c].files[k], text |-> commands[c].texts[k]] \in rows
       /\ \A i, j \in Mine(c) : i < j =>
            (CHOOSE k \in DOMAIN commands[c].files : commands[c].files[k] = ran[i].name)
              < (CHOOSE k \in DOMAIN commands[c].files : commands[c].files[k] = ran[j].name)
    BY DEF RunsAreWhole, Mine
  <2> DEFINE it == commands[c]
  <2>1. WholeRun(c, it) /\ it \in CommandRecord
    BY CommandTyped DEF RunsInv, RunInv
  <2>2. DOMAIN it.files = 1..Len(it.files) /\ DOMAIN it.texts = 1..Len(it.files)
    BY <2>1 DEF WholeRun, CommandRecord
  <2>3. ASSUME NEW i \in Mine(c), NEW j \in Mine(c), i < j
        PROVE  (CHOOSE k \in DOMAIN it.files : it.files[k] = ran[i].name)
                 < (CHOOSE k \in DOMAIN it.files : it.files[k] = ran[j].name)
    <3>1. /\ \E k \in DOMAIN it.files : it.files[k] = ran[i].name
          /\ \E k \in DOMAIN it.files : it.files[k] = ran[j].name
      BY <2>1, <2>2 DEF WholeRun
    <3>2. \A k, l \in 1..Len(it.files) : ran[i].name = it.files[k] /\ ran[j].name = it.files[l] => k < l
      BY <2>1, <2>3 DEF WholeRun, Before
    <3> QED BY <2>2, <3>1, <3>2
  <2> QED BY <2>1, <2>2, <2>3 DEF WholeRun, FileRow
<1> QED BY <1>1, MigratorInvHolds, RunsInvHolds, PTL
=================================================================================
