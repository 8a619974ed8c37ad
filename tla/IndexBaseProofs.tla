---------------------------- MODULE IndexBaseProofs -----------------------------
(***************************************************************************)
(* Proofs about IndexBase, for every number of runs and of tables.  That   *)
(* the base is complete rests on an invariant of its own: some run stands  *)
(* at the frontier, past every table there is, as long as one is not       *)
(* accounted for.                                                          *)
(***************************************************************************)
EXTENDS IndexBase, TLAPS

\* The initial state has the types
LEMMA InitType == Init => TypeOK
<1> SUFFICES ASSUME Init PROVE TypeOK
  OBVIOUS
<1> USE BaseAssumption DEF BaseAssumption, Init
<1>1. pc \in [Procs -> {"check", "select", "close", "off", "failed", "killed"} \cup Creating]
  OBVIOUS
<1>2. i \in [Procs -> 1..NbTables + 1]
  OBVIOUS
<1>3. \A p \in Procs : pc[p] = "check" /\ i[p] = 1 /\ writer # p
  OBVIOUS
<1>4. 1 \in Tables
  BY DEF Tables
<1>5. QED
  <2>1. writer \in Procs \cup {NoProc} /\ file \in BOOLEAN /\ tables = {} /\ missed = {}
    OBVIOUS
  <2>2. QED
    BY <1>1, <1>2, <1>3, <1>4, <2>1 DEF TypeOK, Creating, InLoop

\* The steps of one run keep the types
LEMMA StepType ==
  ASSUME TypeOK, [Next]_vars
  PROVE  TypeOK'
<1> USE BaseAssumption DEF BaseAssumption, TypeOK, Tables, Creating, InLoop, Goes
<1>1. CASE UNCHANGED vars
  BY <1>1 DEF vars
<1>2. ASSUME NEW p \in Procs, Check(p) PROVE TypeOK'
  <2>1. CASE file
    BY <1>2, <2>1 DEF Check
  <2>2. CASE ~file
    BY <1>2, <2>2 DEF Check
  <2>3. QED
    BY <2>1, <2>2
<1>3. ASSUME NEW p \in Procs, Open(p) PROVE TypeOK'
  BY <1>3 DEF Open
<1>4. ASSUME NEW p \in Procs, Prepare(p) PROVE TypeOK'
  BY <1>4 DEF Prepare
<1>5. ASSUME NEW p \in Procs, PrepareThrows(p) PROVE TypeOK'
  BY <1>5 DEF PrepareThrows, Rest
<1>6. ASSUME NEW p \in Procs, Step(p) PROVE TypeOK'
  BY <1>6 DEF Step
<1>7. ASSUME NEW p \in Procs, StepBusy(p) PROVE TypeOK'
  BY <1>7 DEF StepBusy
<1>8. ASSUME NEW p \in Procs, Write(p) PROVE TypeOK'
  <2>1. i[p] \in Tables /\ tables' \subseteq Tables /\ tables' \subseteq tables \cup {i[p]}
    BY <1>8 DEF Write
  <2>2. file
    BY <1>8, <2>1 DEF Write
  <2>3. QED
    BY <1>8, <2>1, <2>2 DEF Write
<1>9. ASSUME NEW p \in Procs, NextTable(p) PROVE TypeOK'
  BY <1>9 DEF NextTable
<1>10. ASSUME NEW p \in Procs, Select(p) PROVE TypeOK'
  BY <1>10 DEF Select
<1>11. ASSUME NEW p \in Procs, Close(p) PROVE TypeOK'
  BY <1>11 DEF Close
<1>12. ASSUME NEW p \in Procs, Kill(p) PROVE TypeOK'
  BY <1>12 DEF Kill, Rest
<1>13. QED
  BY <1>1, <1>2, <1>3, <1>4, <1>5, <1>6, <1>7, <1>8, <1>9, <1>10, <1>11, <1>12 DEF Next

\* The type invariant: the lock belongs to the run that writes, and every loop variable
\* stays within the tables
THEOREM TypeCorrect == Spec => []TypeOK
<1>1. Init => TypeOK
  BY InitType
<1>2. TypeOK /\ [Next]_vars => TypeOK'
  BY StepType
<1>3. QED
  BY <1>1, <1>2, PTL DEF Spec

-----------------------------------------------------------------------------
\* The data base is made once: it follows from the types alone
LEMMA StepMade ==
  ASSUME TypeOK, [Next]_vars, Created
  PROVE  Created' /\ tables' = tables
<1> USE DEF TypeOK, Created, Creating, InLoop, Goes
<1>1. CASE UNCHANGED vars
  BY <1>1 DEF vars
<1>2. ASSUME NEW p \in Procs, Check(p) PROVE Created' /\ tables' = tables
  BY <1>2 DEF Check
<1>3. ASSUME NEW p \in Procs, Open(p) PROVE Created' /\ tables' = tables
  BY <1>3 DEF Open
<1>4. ASSUME NEW p \in Procs, Prepare(p) PROVE Created' /\ tables' = tables
  BY <1>4 DEF Prepare
<1>5. ASSUME NEW p \in Procs, PrepareThrows(p) PROVE Created' /\ tables' = tables
  BY <1>5 DEF PrepareThrows
<1>6. ASSUME NEW p \in Procs, Step(p) PROVE Created' /\ tables' = tables
  BY <1>6 DEF Step
<1>7. ASSUME NEW p \in Procs, StepBusy(p) PROVE Created' /\ tables' = tables
  BY <1>7 DEF StepBusy
<1>8. ASSUME NEW p \in Procs, Write(p) PROVE Created' /\ tables' = tables
  BY <1>8 DEF Write
<1>9. ASSUME NEW p \in Procs, NextTable(p) PROVE Created' /\ tables' = tables
  BY <1>9 DEF NextTable
<1>10. ASSUME NEW p \in Procs, Select(p) PROVE Created' /\ tables' = tables
  BY <1>10 DEF Select
<1>11. ASSUME NEW p \in Procs, Close(p) PROVE Created' /\ tables' = tables
  BY <1>11 DEF Close
<1>12. ASSUME NEW p \in Procs, Kill(p) PROVE Created' /\ tables' = tables
  BY <1>12 DEF Kill
<1>13. QED
  BY <1>1, <1>2, <1>3, <1>4, <1>5, <1>6, <1>7, <1>8, <1>9, <1>10, <1>11, <1>12 DEF Next

\* A run that finds a file does not create
THEOREM MadeOnceHolds == Spec => MadeOnce
<1>1. TypeOK /\ [Next]_vars => (Created => Created' /\ tables' = tables)
  BY StepMade
<1>2. QED
  BY <1>1, TypeCorrect, PTL DEF Spec, MadeOnce

-----------------------------------------------------------------------------
\* The tables a run that creates is past are there, or were missed; it begins with the first
Passed ==
  \A p \in Procs :
    /\ pc[p] \in {"check", "open"} => i[p] = 1
    /\ pc[p] \in Creating => \A t \in Tables : t < Reached(p) => t \in tables \cup missed

\* Nothing but what was missed is missing, or a run in the loop is past all tables there are
AtFrontier(p) == pc[p] \in InLoop /\ \A t \in tables : t < Reached(p)
Frontier == file => Tables = tables \cup missed \/ \E p \in Procs : AtFrontier(p)

CompleteInv == TypeOK /\ Passed /\ Frontier

\* No table is lost and none missed is forgotten
LEMMA StepGrows ==
  ASSUME TypeOK, [Next]_vars
  PROVE  tables \subseteq tables' /\ missed \subseteq missed'
<1>1. CASE UNCHANGED vars
  BY <1>1 DEF vars
<1>2. ASSUME NEW p \in Procs, Check(p) \/ Open(p) \/ Prepare(p) \/ PrepareThrows(p) \/ Step(p)
      PROVE  tables \subseteq tables' /\ missed \subseteq missed'
  BY <1>2 DEF Check, Open, Prepare, PrepareThrows, Step
<1>3. ASSUME NEW p \in Procs,
             StepBusy(p) \/ Write(p) \/ NextTable(p) \/ Select(p) \/ Close(p) \/ Kill(p)
      PROVE  tables \subseteq tables' /\ missed \subseteq missed'
  BY <1>3 DEF StepBusy, Write, NextTable, Select, Close, Kill
<1>4. QED
  BY <1>1, <1>2, <1>3 DEF Next

LEMMA StepPassed ==
  ASSUME TypeOK, [Next]_vars, Passed
  PROVE  Passed'
<1> SUFFICES ASSUME NEW q \in Procs
             PROVE  /\ pc'[q] \in {"check", "open"} => i'[q] = 1
                    /\ pc'[q] \in Creating =>
                         \A t \in Tables : t < Reached(q)' => t \in tables' \cup missed'
  BY DEF Passed
<1> DEFINE Good == /\ pc'[q] \in {"check", "open"} => i'[q] = 1
                   /\ pc'[q] \in Creating =>
                        \A t \in Tables : t < Reached(q)' => t \in tables' \cup missed'
<1>0. tables \subseteq tables' /\ missed \subseteq missed'
  BY StepGrows
<1>00. ASSUME pc'[q] = pc[q], i'[q] = i[q] PROVE Good
  BY <1>0, <1>00 DEF Passed, Reached
<1>s. UNCHANGED vars => Good
  BY <1>00 DEF vars
<1> USE DEF TypeOK, Passed, Reached, Creating, InLoop, Goes, Tables
<1>1. ASSUME NEW p \in Procs, Check(p) PROVE Good
  <2>1. CASE p # q
    BY <1>1, <2>1, <1>00 DEF Check
  <2>2. CASE p = q
    BY <1>1, <2>2, <1>0 DEF Check
  <2>3. QED
    BY <2>1, <2>2
<1>2. ASSUME NEW p \in Procs, Open(p) PROVE Good
  <2>1. CASE p # q
    BY <1>2, <2>1, <1>00 DEF Open
  <2>2. CASE p = q
    BY <1>2, <2>2, <1>0 DEF Open
  <2>3. QED
    BY <2>1, <2>2
<1>3. ASSUME NEW p \in Procs, Prepare(p) PROVE Good
  <2>1. CASE p # q
    BY <1>3, <2>1, <1>00 DEF Prepare
  <2>2. CASE p = q
    BY <1>3, <2>2, <1>0 DEF Prepare
  <2>3. QED
    BY <2>1, <2>2
<1>4. ASSUME NEW p \in Procs, PrepareThrows(p) PROVE Good
  <2>1. CASE p # q
    BY <1>4, <2>1, <1>00 DEF PrepareThrows
  <2>2. CASE p = q
    BY <1>4, <2>2, <1>0 DEF PrepareThrows
  <2>3. QED
    BY <2>1, <2>2
<1>5. ASSUME NEW p \in Procs, Step(p) PROVE Good
  <2>1. CASE p # q
    BY <1>5, <2>1, <1>00 DEF Step
  <2>2. CASE p = q
    BY <1>5, <2>2, <1>0 DEF Step
  <2>3. QED
    BY <2>1, <2>2
<1>6. ASSUME NEW p \in Procs, StepBusy(p) PROVE Good
  <2>1. CASE p # q
    BY <1>6, <2>1, <1>00 DEF StepBusy
  <2>2. CASE p = q
    BY <1>6, <2>2, <1>0 DEF StepBusy
  <2>3. QED
    BY <2>1, <2>2
<1>7. ASSUME NEW p \in Procs, Write(p) PROVE Good
  <2>1. CASE p # q
    BY <1>7, <2>1, <1>00 DEF Write
  <2>2. CASE p = q
    BY <1>7, <2>2, <1>0 DEF Write
  <2>3. QED
    BY <2>1, <2>2
<1>8. ASSUME NEW p \in Procs, NextTable(p) PROVE Good
  <2>1. CASE p # q
    BY <1>8, <2>1, <1>00 DEF NextTable
  <2>2. CASE p = q
    BY <1>8, <2>2, <1>0 DEF NextTable
  <2>3. QED
    BY <2>1, <2>2
<1>9. ASSUME NEW p \in Procs, Select(p) PROVE Good
  <2>1. CASE p # q
    BY <1>9, <2>1, <1>00 DEF Select
  <2>2. CASE p = q
    BY <1>9, <2>2, <1>0 DEF Select
  <2>3. QED
    BY <2>1, <2>2
<1>10. ASSUME NEW p \in Procs, Close(p) PROVE Good
  <2>1. CASE p # q
    BY <1>10, <2>1, <1>00 DEF Close
  <2>2. CASE p = q
    BY <1>10, <2>2, <1>0 DEF Close
  <2>3. QED
    BY <2>1, <2>2
<1>11. ASSUME NEW p \in Procs, Kill(p) PROVE Good
  <2>1. CASE p # q
    BY <1>11, <2>1, <1>00 DEF Kill
  <2>2. CASE p = q
    BY <1>11, <2>2, <1>0 DEF Kill
  <2>3. QED
    BY <2>1, <2>2
<1>12. QED
  BY <1>s, <1>1, <1>2, <1>3, <1>4, <1>5, <1>6, <1>7, <1>8, <1>9, <1>10, <1>11 DEF Next

\* A run at the frontier that does not step stays there, unless a table is made
LEMMA FrontierStays ==
  ASSUME TypeOK, NEW p \in Procs, AtFrontier(p), pc'[p] = pc[p], i'[p] = i[p], tables' = tables
  PROVE  AtFrontier(p)'
BY DEF AtFrontier, Reached

LEMMA StepFrontier ==
  ASSUME TypeOK, TypeOK', [Next]_vars, Passed, Passed', Frontier
  PROVE  Frontier'
<1> SUFFICES ASSUME file', Tables # tables' \cup missed'
             PROVE  \E p \in Procs : AtFrontier(p)'
  BY DEF Frontier, Tables
<1>0. tables \subseteq tables' /\ missed \subseteq missed' /\ Tables # tables \cup missed
  BY StepGrows DEF TypeOK, Tables
<1> USE DEF TypeOK, Goes
<1>1. CASE UNCHANGED vars
  <2>1. PICK p \in Procs : AtFrontier(p)
    BY <1>1, <1>0 DEF vars, Frontier
  <2>2. QED
    BY <1>1, <2>1, FrontierStays DEF vars
<1>2. ASSUME NEW q \in Procs, Open(q) PROVE \E p \in Procs : AtFrontier(p)'
  <2>1. CASE file
    <3>1. PICK p \in Procs : AtFrontier(p)
      BY <2>1, <1>0 DEF Frontier
    <3>2. p # q
      BY <1>2, <3>1 DEF Open, AtFrontier, InLoop
    <3>3. QED
      BY <1>2, <3>1, <3>2, FrontierStays DEF Open
  <2>2. CASE ~file
    <3>1. tables' = {} /\ pc'[q] = "prepare"
      BY <1>2, <2>2 DEF Open
    <3>2. QED
      BY <3>1 DEF AtFrontier, InLoop
  <2>3. QED
    BY <2>1, <2>2
<1>3. ASSUME NEW q \in Procs, ~Open(q), Next,
             Check(q) \/ Prepare(q) \/ PrepareThrows(q) \/ Step(q) \/ StepBusy(q) \/ NextTable(q)
               \/ Select(q) \/ Close(q) \/ Kill(q)
      PROVE  \E p \in Procs : AtFrontier(p)'
  <2>1. tables' = tables /\ file' = file
    BY <1>3 DEF Check, Prepare, PrepareThrows, Step, StepBusy, NextTable, Select, Close, Kill
  <2>2. PICK p \in Procs : AtFrontier(p)
    BY <2>1, <1>0 DEF Frontier
  <2>3. CASE p # q
    <3>1. pc'[p] = pc[p] /\ i'[p] = i[p]
      BY <1>3, <2>3 DEF Check, Prepare, PrepareThrows, Step, StepBusy, NextTable, Select,
                        Close, Kill
    <3>2. QED
      BY <2>1, <2>2, <3>1, FrontierStays
  <2>4. CASE p = q
    <3>1. pc[q] \in InLoop /\ \A t \in tables : t < Reached(q)
      BY <2>2, <2>4 DEF AtFrontier
    <3>2. CASE Prepare(q) \/ Step(q) \/ StepBusy(q)
      <4>1. pc'[q] \in {"step", "write", "next"} /\ i' = i /\ pc[q] # "next"
        BY <3>2, <3>1 DEF Prepare, Step, StepBusy, InLoop
      <4>2. Reached(q) <= Reached(q)'
        BY <4>1 DEF Reached, Tables
      <4>3. \A t \in tables : t < Reached(q)'
        BY <3>1, <4>2, <4>1 DEF Reached, Tables
      <4>4. QED
        BY <4>1, <4>3, <2>1 DEF AtFrontier, InLoop
    <3>3. CASE NextTable(q)
      <4>1. CASE i[q] < NbTables
        BY <3>1, <3>3, <4>1, <2>1 DEF NextTable, AtFrontier, InLoop, Reached
      <4>2. CASE ~(i[q] < NbTables)
        <5>1. \A t \in Tables : t < Reached(q)
          BY <3>3, <4>2, BaseAssumption DEF NextTable, Reached, Tables, BaseAssumption
        <5>2. \A t \in Tables : t \in tables \cup missed
          BY <5>1, <3>1 DEF Passed, Creating
        <5>3. QED
          BY <5>2, <1>0
      <4>3. QED
        BY <4>1, <4>2
    <3>4. CASE PrepareThrows(q)
      <4>1. i[q] \notin tables
        BY <3>1, <3>4 DEF PrepareThrows, Reached, Tables
      <4>2. missed' = missed \cup Rest(q)
        BY <3>4, <4>1 DEF PrepareThrows
      <4>3. \A t \in Tables : t \in tables \cup missed'
        BY <4>2, <3>1 DEF Passed, Creating, Rest, Reached, Tables
      <4>4. QED
        BY <4>3, <2>1
    <3>5. CASE Kill(q)
      <4>2. missed' = missed \cup Rest(q)
        BY <3>5, <3>1 DEF Kill
      <4>3. \A t \in Tables : t \in tables \cup missed'
        BY <4>2, <3>1 DEF Passed, Creating, Rest, Reached, Tables
      <4>4. QED
        BY <4>3, <2>1
    <3>6. CASE Check(q) \/ Select(q) \/ Close(q)
      BY <3>1, <3>6 DEF Check, Select, Close, InLoop
    <3>7. QED
      BY <1>3, <3>2, <3>3, <3>4, <3>5, <3>6
  <2>5. QED
    BY <2>3, <2>4
<1>4. ASSUME NEW q \in Procs, Write(q) PROVE \E p \in Procs : AtFrontier(p)'
  <2>1. file' = file /\ pc'[q] = "next" /\ i' = i /\ i[q] \in Tables /\ pc[q] = "write"
    BY <1>4 DEF Write, Creating, InLoop
  <2>2. tables' = tables \/ tables' = tables \cup {i[q]}
    BY <1>4 DEF Write
  <2>3. PICK p \in Procs : AtFrontier(p)
    BY <2>1, <1>0 DEF Frontier
  <2>4. CASE i[q] < Reached(p) /\ p # q
    <3>1. pc'[p] = pc[p]
      BY <1>4, <2>4 DEF Write
    <3>2. QED
      BY <2>1, <2>2, <2>3, <2>4, <3>1 DEF AtFrontier, Reached
  <2>5. CASE ~(i[q] < Reached(p) /\ p # q)
    <3>1. \A t \in tables : t < Reached(p) /\ t \in Tables
      BY <2>3 DEF AtFrontier
    <3>2. Reached(p) <= i[q]
      BY <2>1, <2>5 DEF Reached, Tables
    <3>3. \A t \in tables' : t < i[q] + 1
      BY <3>1, <3>2, <2>1, <2>2 DEF Tables, Reached
    <3>4. Reached(q)' = i[q] + 1
      BY <2>1 DEF Reached
    <3>5. QED
      BY <3>3, <3>4, <2>1 DEF AtFrontier, InLoop
  <2>6. QED
    BY <2>4, <2>5
<1>5. QED
  BY <1>1, <1>2, <1>3, <1>4 DEF Next

LEMMA InitComplete == Init => CompleteInv
<1> SUFFICES ASSUME Init PROVE CompleteInv
  OBVIOUS
<1>1. Passed /\ Frontier
  BY DEF Init, Passed, Frontier, Reached, Creating, InLoop, Tables
<1>2. QED
  BY <1>1, InitType DEF CompleteInv

\* Whoever races, is killed or is refused: when nobody creates any more, the base has every
\* table but those some run could not make or ended before
THEOREM CompleteHolds == Spec => []Complete
<1>1. Init => CompleteInv
  BY InitComplete
<1>2. CompleteInv /\ [Next]_vars => CompleteInv'
  BY StepType, StepPassed, StepFrontier DEF CompleteInv
<1>3. CompleteInv => Complete
  BY DEF CompleteInv, Frontier, AtFrontier, Complete, Created, Creating
<1>4. QED
  BY <1>1, <1>2, <1>3, PTL DEF Spec
================================================================================
