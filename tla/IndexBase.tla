------------------------------- MODULE IndexBase -------------------------------
(***************************************************************************)
(* The program of the index base (ActiveBI.cpp): main() creates the data   *)
(* base with its tables when there is no file of its name                  *)
(* (checkOrCreateDB), opens it and tries a SELECT (tests).  Several of     *)
(* them may run at once, each may be killed, and a write may fail.         *)
(*                                                                         *)
(* Each table is a statement of its own: SQLQuery::prepare throws when it  *)
(* fails, which ends the creation, and SQLQuery::perform only prints.      *)
(* SQLite lets one process write at a time, and a writer commits only when *)
(* no other process reads; no busy handler is set, so that what it refuses *)
(* fails at once.  A statement may be prepared on a schema that is out of  *)
(* date.                                                                   *)
(***************************************************************************)
EXTENDS Integers

CONSTANTS
  Procs,     \* the runs of the program
  NbTables,  \* the statements of rq: 7
  NoProc     \* nobody writes

ASSUME BaseAssumption == NbTables \in Nat \ {0} /\ NoProc \notin Procs

VARIABLES
  file,    \* the file of the data base exists
  tables,  \* the tables it has
  writer,  \* the process that holds the write lock of SQLite
  pc,      \* "check", "open", "prepare", "step", "write", "next", "select", "close",
           \* and the ends: "off", "failed" (EXIT_FAILURE), "killed"
  i,       \* the table each process creates: the loop variable, from 1 on
  missed   \* history: the tables a run could not make, or ended before

vars == <<file, tables, writer, pc, i, missed>>

Tables == 1..NbTables

Init ==
  /\ file = FALSE /\ tables = {} /\ writer = NoProc
  /\ pc = [p \in Procs |-> "check"] /\ i = [p \in Procs |-> 1]
  /\ missed = {}

Goes(p, to) == pc' = [pc EXCEPT ![p] = to]

\* The first table whose statement the process has not run
Reached(p) == IF pc[p] = "next" THEN i[p] + 1 ELSE i[p]
Rest(p)    == {t \in Tables : Reached(p) <= t}

\* Mutant: the base is created whether there is a file or not
CheckNothing(p) ==
  /\ pc[p] = "check"
  /\ Goes(p, "open")
  /\ UNCHANGED <<file, tables, writer, i, missed>>

\* ifstream(irname)
Check(p) ==
  /\ pc[p] = "check"
  /\ Goes(p, IF file THEN "select" ELSE "open")
  /\ UNCHANGED <<file, tables, writer, i, missed>>

\* sqlite3_open() makes an empty file, or throws a pointer that nothing catches
Open(p) ==
  /\ pc[p] = "open"
  /\ \/ file' = TRUE /\ Goes(p, "prepare")
     \/ file' = file /\ Goes(p, "failed")
  /\ UNCHANGED <<tables, writer, i, missed>>

\* prepare() finds no such table, or does not see it in the schema it has
Prepare(p) ==
  /\ pc[p] = "prepare"
  /\ Goes(p, "step")
  /\ UNCHANGED <<file, tables, writer, i, missed>>

\* prepare() throws, which ends the creation: the table exists, or another process is
\* writing
PrepareThrows(p) ==
  /\ pc[p] = "prepare" /\ Goes(p, "select")
  /\ \/ i[p] \in tables /\ missed' = missed
     \/ writer # NoProc /\ missed' = missed \cup Rest(p)
  /\ UNCHANGED <<file, tables, writer, i>>

\* sqlite3_step() takes the write lock
Step(p) ==
  /\ pc[p] = "step" /\ writer = NoProc
  /\ writer' = p /\ Goes(p, "write")
  /\ UNCHANGED <<file, tables, i, missed>>

\* or fails, which perform() prints
StepBusy(p) ==
  /\ pc[p] = "step" /\ writer # NoProc
  /\ missed' = missed \cup {i[p]} /\ Goes(p, "next")
  /\ UNCHANGED <<file, tables, writer, i>>

\* Mutant: a write that fails leaves the transaction open
WriteStuck(p) ==
  /\ pc[p] = "write" /\ Goes(p, "next")
  /\ \/ tables' = tables \cup {i[p]} /\ missed' = missed /\ writer' = NoProc
     \/ tables' = tables /\ missed' = missed \cup {i[p]} /\ writer' = writer
  /\ UNCHANGED <<file, i>>

\* The table is created or was there already.  Or it is rolled back: the write fails, or
\* the commit is refused because another process reads (it prepares, tries a step or is in
\* its SELECT); perform() prints it as well
Write(p) ==
  /\ pc[p] = "write" /\ Goes(p, "next")
  /\ writer' = NoProc
  /\ \/ tables' = tables \cup {i[p]} /\ missed' = missed
     \/ tables' = tables /\ missed' = missed \cup {i[p]}
  /\ UNCHANGED <<file, i>>

\* Mutant: the loop ends before the last table
NextButLast(p) ==
  /\ pc[p] = "next"
  /\ i' = [i EXCEPT ![p] = @ + 1]
  /\ Goes(p, IF i[p] + 1 < NbTables THEN "prepare" ELSE "select")
  /\ UNCHANGED <<file, tables, writer, missed>>

\* The end of a turn of the loop, and close() after the last one
NextTable(p) ==
  /\ pc[p] = "next"
  /\ i' = [i EXCEPT ![p] = @ + 1]
  /\ Goes(p, IF i[p] < NbTables THEN "prepare" ELSE "select")
  /\ UNCHANGED <<file, tables, writer, missed>>

\* The second open(), and tests(): the first table must be there, and what SQLite refuses
\* or open() throws ends the run
Select(p) ==
  /\ pc[p] = "select"
  /\ \/ 1 \in tables /\ Goes(p, "close")
     \/ Goes(p, "failed")
  /\ UNCHANGED <<file, tables, writer, i, missed>>

\* close(), and the destructor that closes what is freed
Close(p) ==
  /\ pc[p] = "close"
  /\ Goes(p, "off") \/ Goes(p, "killed")
  /\ UNCHANGED <<file, tables, writer, i, missed>>

\* Where a process has made the file and runs the loop
InLoop   == {"prepare", "step", "write", "next"}
Creating == {"open"} \cup InLoop

\* A signal; SQLite rolls back what was not committed
Kill(p) ==
  /\ pc[p] \notin {"off", "failed", "killed"}
  /\ Goes(p, "killed")
  /\ writer' = IF writer = p THEN NoProc ELSE writer
  /\ missed' = IF pc[p] \in InLoop THEN missed \cup Rest(p) ELSE missed
  /\ UNCHANGED <<file, tables, i>>

Next ==
  \E p \in Procs :
    \/ Check(p) \/ Open(p)
    \/ Prepare(p) \/ PrepareThrows(p) \/ Step(p) \/ StepBusy(p) \/ Write(p) \/ NextTable(p)
    \/ Select(p) \/ Close(p) \/ Kill(p)

Spec == Init /\ [][Next]_vars

-----------------------------------------------------------------------------
(* What the base promises *)

\* The type invariant; only the process that writes holds the lock, and there is a file
\* as soon as there are tables
TypeOK ==
  /\ file \in BOOLEAN /\ tables \subseteq Tables /\ writer \in Procs \cup {NoProc}
  /\ pc \in [Procs -> {"check", "select", "close", "off", "failed", "killed"} \cup Creating]
  /\ i \in [Procs -> 1..NbTables + 1]
  /\ missed \subseteq Tables
  /\ \A p \in Procs : /\ pc[p] \in {"check"} \cup Creating => i[p] \in Tables
                      /\ pc[p] \in InLoop => file
                      /\ writer = p <=> pc[p] = "write"
  /\ tables # {} => file

Created == file /\ \A p \in Procs : pc[p] \notin Creating

\* checkOrCreateDB() "Check l'existence de la bdd et la cree sinon avec les tables"
\* (ActiveBI.cpp:35).  Runs that find no file may create at once, and each gives up at the
\* first table that another one made before it; when nobody creates any more, a table is
\* missing only if the statement of some run for it failed or was refused, or a run was
\* killed, or refused at prepare(), before it came to that table
Complete == Created => Tables = tables \cup missed

\* The data base is made once: a run that finds a file does not create, whatever it lacks
MadeOnce == [][Created => Created' /\ tables' = tables]_vars
================================================================================
