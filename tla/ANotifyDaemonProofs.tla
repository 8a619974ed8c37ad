-------------------------- MODULE ANotifyDaemonProofs --------------------------
(***************************************************************************)
(* Theorems about the life of the daemon: its types, for every number of    *)
(* clients, start threads and directories, and what a stop leaves listed    *)
(* while start threads go on adding.                                        *)
(***************************************************************************)
EXTENDS ANotifyDaemon, TLAPS

LEMMA TypeInit == Init => TypeOK
<1> SUFFICES ASSUME Init PROVE TypeOK
  OBVIOUS
<1> USE DaemonAssumption DEF Init, Unlisted
<1>1. /\ spc \in [Starters -> {"none", "copy"}]
      /\ \A s \in Starters : watchLoop[s] = "none" /\ runLoop[s] = "none"
  OBVIOUS
<1>2. <<>> \in Seq(Dirs)
  OBVIOUS
<1>3. /\ path \in [Starters -> Paths]
      /\ todo \in [Starters -> Seq(Dirs)]
  BY <1>2
<1>4. /\ cpc \in [Clients -> {"idle"}]
      /\ op \in [Clients -> Ops] /\ arg \in [Clients -> Paths]
      /\ res \in [Clients -> {"none", "Y", "N"}]
  BY DEF Ops
<1>5. /\ watchLoop \in [Starters -> {"none", "test", "call", "read", "ended"}]
      /\ runLoop \in [Starters -> {"none", "test", "get", "ended"}]
  OBVIOUS
<1> QED
  BY <1>1, <1>3, <1>4, <1>5 DEF TypeOK

\* Every step of a start thread keeps the types.
LEMMA StarterType ==
  ASSUME TypeOK, NEW s \in Starters, StarterStep(s)
  PROVE  TypeOK'
<1> USE DaemonAssumption DEF TypeOK, flags, starts, loops, commands, process, StarterGoes
<1>1. CASE CopyArgument(s)
  <2>1. CASE Crash
    BY <2>1 DEF Crash
  <2>2. CASE StarterGoes(s, "copy", "test")
    <3>1. path' \in [Starters -> Paths]
      BY <1>1, <2>2 DEF CopyArgument, Crash
    <3>2. UNCHANGED <<running, alive, notify, maker, todo, loops>>
      BY <1>1, <2>2 DEF CopyArgument, Crash
    <3> QED
      BY <2>2, <3>1, <3>2
  <2> QED
    BY <1>1, <2>1, <2>2 DEF CopyArgument
<1>2. CASE TestRunning(s) \/ SetRunning(s)
  BY <1>2 DEF TestRunning, SetRunning
<1>3. CASE AddRootTest(s)
  BY <1>3 DEF AddRootTest
<1>4. CASE AddDirectory(s) \/ AddThrows(s)
  <2>1. todo[s] # <<>> /\ todo[s] \in Seq(Dirs)
    BY <1>4 DEF AddDirectory, AddThrows, AddFailed
  <2>2. Head(todo[s]) \in Dirs /\ Tail(todo[s]) \in Seq(Dirs)
    BY <2>1
  <2>3. todo' = [todo EXCEPT ![s] = Tail(todo[s])]
    BY <1>4 DEF AddDirectory, AddThrows
  <2>4. todo' \in [Starters -> Seq(Dirs)] /\ maker' \in [Dirs -> Starters \cup {Nobody}]
    BY <1>4, <2>2, <2>3 DEF AddDirectory, AddThrows
  <2>5. /\ spc[s] = "add"
        /\ \/ spc' = [spc EXCEPT ![s] = "done"]
           \/ spc' = [spc EXCEPT ![s] = "next"]
    BY <1>4 DEF AddDirectory, AddThrows, AddFailed
  <2>6. UNCHANGED <<running, alive, notify, path, loops, commands, process>>
    BY <1>4 DEF AddDirectory, AddThrows, AddFailed
  <2> QED
    BY <2>3, <2>4, <2>5, <2>6
<1>5. CASE AddNext(s) \/ AddEnds(s)
  BY <1>5 DEF AddNext, AddEnds
<1>6. CASE SkipNext(s)
  <2>1. Tail(todo[s]) \in Seq(Dirs)
    BY <1>6 DEF SkipNext
  <2> QED
    BY <1>6, <2>1 DEF SkipNext
<1>7. CASE CreateWatchLoop(s)
  BY <1>7 DEF CreateWatchLoop
<1>8. CASE CreateRunLoop(s)
  BY <1>8 DEF CreateRunLoop
<1>9. CASE CreateFails(s)
  <2>1. /\ spc[s] \in {"listen", "run"}
        /\ spc' = [spc EXCEPT ![s] = "failed"]
        /\ UNCHANGED <<alive, notify, maker, path, todo, loops, commands, process>>
        /\ running' = FALSE
    BY <1>9 DEF CreateFails
  <2> QED
    BY <2>1
<1>10. CASE UsesDeleted(s)
  BY <1>10 DEF UsesDeleted, Crash
<1> QED
  BY <1>1, <1>2, <1>3, <1>4, <1>5, <1>6, <1>7, <1>8, <1>9, <1>10 DEF StarterStep

\* So does every step of the two loops.
LEMMA LoopType ==
  ASSUME TypeOK, NEW s \in Starters,
         RunStep(s) \/ WatchTest(s) \/ WatchCall(s) \/ WatchReturns(s)
  PROVE  TypeOK'
<1> USE DEF TypeOK, flags, starts, loops, commands, process
<1>1. CASE RunStep(s)
  BY <1>1 DEF RunStep, RunTest, RunGet, RunGoes, Crash
<1>2. CASE WatchTest(s) \/ WatchCall(s) \/ WatchReturns(s)
  BY <1>2 DEF WatchTest, WatchCall, WatchReturns, WatchGoes, Crash
<1> QED
  BY <1>1, <1>2

\* And every step of a client.
LEMMA CommandType ==
  ASSUME TypeOK, NEW c \in Clients, Command(c) \/ CommandStep(c)
  PROVE  TypeOK'
<1> USE DaemonAssumption DEF TypeOK, flags, starts, loops, commands, process, Goes, Result
<1>0. Unlisted \in [Dirs -> Starters \cup {Nobody}]
  BY DEF Unlisted
<1>1. CASE Command(c)
  <2>1. \A o \in Sends[c] : o \in Ops
    OBVIOUS
  <2> QED
    BY <1>1, <2>1 DEF Command, Ops
<1>2. CASE StopTest(c)
  BY <1>2 DEF StopTest, AfterStop
<1>3. CASE StopSet(c)
  BY <1>3 DEF StopSet
<1>4. CASE StopClose(c)
  BY <1>0, <1>4 DEF StopClose, AfterStop, Crash
<1>5. CASE Spawn(c)
  <2>1. CASE UNCHANGED starts
    BY <1>5, <2>1 DEF Spawn
  <2>2. ASSUME NEW s \in Starters, spc[s] = "none",
               spc' = [spc EXCEPT ![s] = "copy"], path' = [path EXCEPT ![s] = arg[c]],
               Goes(c, "spawn", "reply"), Result(c, "Y"), UNCHANGED <<flags, todo>>
        PROVE  TypeOK'
    <3>1. path' \in [Starters -> Paths] /\ spc' \in [Starters -> {"none", "copy", "test",
            "set", "root", "add", "next", "listen", "run", "done", "failed"}]
      BY <2>2
    <3>2. cpc' \in [Clients -> {"idle", "stopTest", "stopSet", "close", "spawn", "killTest",
                                "delete", "null", "dead", "reply", "ended"}]
      BY <2>2
    <3> QED
      BY <2>2, <3>1, <3>2
  <2> QED
    BY <1>5, <2>1, <2>2 DEF Spawn
<1>6. CASE KillTest(c) \/ SetDead(c)
  BY <1>6 DEF KillTest, SetDead
<1>7. CASE DeleteNotify(c)
  BY <1>0, <1>7 DEF DeleteNotify, Crash
<1>8. CASE NullNotify(c)
  BY <1>8 DEF NullNotify
<1>9. CASE Reply(c)
  <2>1. "start" \in Ops
    BY DEF Ops
  <2> QED
    BY <1>9, <2>1 DEF Reply
<1> QED
  BY <1>1, <1>2, <1>3, <1>4, <1>5, <1>6, <1>7, <1>8, <1>9 DEF CommandStep

LEMMA TypeNext == TypeOK /\ [Next]_vars => TypeOK'
<1> SUFFICES ASSUME TypeOK, [Next]_vars PROVE TypeOK'
  OBVIOUS
<1>1. CASE UNCHANGED vars
  BY <1>1 DEF TypeOK, vars, flags, starts, loops, commands, process
<1>2. CASE MainExits
  BY <1>2 DEF MainExits, TypeOK, flags, starts, loops, commands, process
<1> QED
  BY <1>1, <1>2, StarterType, LoopType, CommandType DEF Next

\* Types hold in every reachable state, whatever the clients send and however the threads
\* of startT, waitForEvents, run and communicate interleave.
THEOREM TypeCorrect == Spec => []TypeOK
BY TypeInit, TypeNext, PTL DEF Spec

----------------------------------------------------------------------------
(* What stop() leaves *)

\* Once stopped, a thread that is about to add has listed nothing, and no thread has
\* listed two directories; what a client does between running FALSE and Close() does
\* not matter.
AtMostOne(s) ==
  /\ \A d, e \in Dirs : maker[d] = s /\ maker[e] = s => d = e
  /\ spc[s] = "add" => \A d \in Dirs : maker[d] # s

Little == Stopped /\ (\A s \in Starters : spc[s] # "failed") => \A s \in Starters : AtMostOne(s)

Closed == TypeOK /\ Little

LEMMA ClosedInit == Init => Closed
BY TypeInit, DaemonAssumption DEF Init, Closed, Little, AtMostOne, Unlisted

\* A step that leaves the start threads, the table and running alone, and no client at
\* Close(), keeps what holds.
LEMMA LittleKept ==
  ASSUME Little, UNCHANGED <<running, maker, spc>>, Stopped' => Stopped
  PROVE  Little'
BY DEF Little, AtMostOne

LEMMA StarterClosed ==
  ASSUME Closed, NEW s \in Starters, StarterStep(s)
  PROVE  Little'
<1> USE DEF Closed, TypeOK
<1>1. CASE Crash
  BY <1>1, LittleKept DEF Crash, flags, starts, commands, Stopped
\* A thread that goes elsewhere than to "add" and lists nothing
<1>2. ASSUME NEW x, NEW y, StarterGoes(s, x, y), x # "failed", y # "add",
             UNCHANGED <<running, maker>>
      PROVE  Little'
  <2>1. spc[s] # "failed" /\ spc'[s] = y /\ (\A u \in Starters : u # s => spc'[u] = spc[u])
        /\ UNCHANGED cpc
    BY <1>2 DEF StarterGoes, commands
  <2>2. Stopped' => Stopped
    BY <1>2, <2>1 DEF Stopped
  <2> QED
    BY <1>2, <2>1, <2>2 DEF Little, AtMostOne
\* A thread that goes on only while running is TRUE
<1>3. ASSUME running'
      PROVE  Little'
  BY <1>3 DEF Little, Stopped
<1>4. CASE CopyArgument(s) /\ ~Crash
  BY <1>2, <1>4 DEF CopyArgument, flags
<1>5. CASE TestRunning(s)
  BY <1>2, <1>5 DEF TestRunning, flags
<1>6. CASE SetRunning(s)
  BY <1>3, <1>6 DEF SetRunning
<1>7. CASE AddRootTest(s)
  BY <1>2, <1>3, <1>7 DEF AddRootTest, flags
<1>8. CASE AddDirectory(s)
  <2> DEFINE h == Head(todo[s])
  <2>1. h \in Dirs
    BY <1>8 DEF AddDirectory
  <2>2. /\ maker'[h] = s
        /\ \A d \in Dirs : d # h => maker'[d] = maker[d]
    BY <1>8, <2>1 DEF AddDirectory
  <2>3. /\ spc[s] = "add" /\ spc'[s] \in {"next", "done"}
        /\ \A u \in Starters : u # s => spc'[u] = spc[u]
        /\ UNCHANGED <<running, cpc>>
    BY <1>8 DEF AddDirectory, AddFailed, StarterGoes, commands
  <2>4. ASSUME Stopped', \A u \in Starters : spc'[u] # "failed"
        PROVE  \A u \in Starters : AtMostOne(u)'
    <3> HIDE DEF h
    <3>0. Stopped /\ \A u \in Starters : spc[u] # "failed"
      <4>1. Stopped
        BY ONLY <2>3, <2>4 DEF Stopped
      <4>2. spc[s] # "failed"
        BY ONLY <2>3
      <4>3. \A u \in Starters : u # s => spc[u] # "failed"
        BY ONLY <2>3, <2>4
      <4> QED
        BY ONLY <4>1, <4>2, <4>3
    <3>1. \A u \in Starters : AtMostOne(u)
      BY <3>0 DEF Little
    <3>2. AtMostOne(s)'
      BY <2>2, <2>3, <3>1 DEF AtMostOne
    <3>3. ASSUME NEW u \in Starters, u # s
          PROVE  AtMostOne(u)'
      <4>1. AtMostOne(u)
        BY <3>1
      <4>2. \A d \in Dirs : maker'[d] = u => maker[d] = u
        BY <2>2, <3>3
      <4>3. spc'[u] = spc[u]
        BY <2>3, <3>3
      <4> QED
        BY <4>1, <4>2, <4>3 DEF AtMostOne
    <3> QED
      BY <3>2, <3>3
  <2> QED
    BY <2>4 DEF Little
<1>9. CASE AddThrows(s)
  BY <1>2, <1>9 DEF AddThrows, AddFailed, flags
<1>10. CASE AddNext(s)
  BY <1>3, <1>10 DEF AddNext, flags
<1>11. CASE SkipNext(s) \/ AddEnds(s)
  BY <1>2, <1>11 DEF SkipNext, AddEnds, flags
<1>12. CASE CreateWatchLoop(s) \/ CreateRunLoop(s)
  BY <1>2, <1>12 DEF CreateWatchLoop, CreateRunLoop, flags
<1>13. CASE CreateFails(s)
  <2>1. spc'[s] = "failed"
    BY <1>13 DEF CreateFails, StarterGoes
  <2> QED
    BY <2>1 DEF Little
<1> QED
  BY <1>1, <1>4, <1>5, <1>6, <1>7, <1>8, <1>9, <1>10, <1>11, <1>12, <1>13
     DEF StarterStep, UsesDeleted

LEMMA ClientClosed ==
  ASSUME Closed, NEW c \in Clients, Command(c) \/ CommandStep(c)
  PROVE  Little'
<1> USE DEF Closed, TypeOK
<1>1. CASE Crash
  BY <1>1, LittleKept DEF Crash, flags, starts, commands, Stopped
\* A client that is not at Close()
<1>2. ASSUME cpc[c] # "close", \E y : cpc' = [cpc EXCEPT ![c] = y],
             UNCHANGED running
      PROVE  Stopped' => Stopped
  BY <1>2 DEF Stopped
<1>3. CASE Command(c)
  BY <1>2, <1>3, LittleKept DEF Command, flags, starts
<1>4. CASE StopTest(c) \/ KillTest(c) \/ NullNotify(c) \/ SetDead(c)
  <2>1. /\ cpc[c] # "close" /\ (\E y : cpc' = [cpc EXCEPT ![c] = y])
        /\ UNCHANGED <<running, maker, spc>>
    BY <1>4 DEF StopTest, KillTest, NullNotify, SetDead, Goes, flags, starts
  <2> QED
    BY <1>2, <2>1, LittleKept
<1>5. CASE StopSet(c)
  <2>1. cpc'[c] = "close"
    BY <1>5 DEF StopSet, Goes
  <2> QED
    BY <2>1 DEF Little, Stopped
\* Close() empties the table
<1>6. ASSUME maker' = Unlisted
      PROVE  Little'
  BY <1>6, DaemonAssumption DEF Little, AtMostOne, Unlisted
<1>7. CASE StopClose(c)
  BY <1>1, <1>6, <1>7 DEF StopClose
<1>8. CASE Spawn(c)
  <2>1. /\ cpc[c] = "spawn" /\ cpc' = [cpc EXCEPT ![c] = "reply"]
        /\ UNCHANGED <<running, maker>>
    BY <1>8 DEF Spawn, Goes, flags
  <2>2. Stopped' => Stopped
    BY <1>2, <2>1
  <2>3. CASE UNCHANGED spc
    BY <2>1, <2>2, <2>3, LittleKept
  <2>4. ASSUME NEW s \in Starters, spc[s] = "none", spc' = [spc EXCEPT ![s] = "copy"]
        PROVE  Little'
    <3>1. spc'[s] = "copy" /\ \A u \in Starters : u # s => spc'[u] = spc[u]
      BY <2>4
    <3> QED
      BY <2>1, <2>2, <2>4, <3>1 DEF Little, AtMostOne
  <2> QED
    BY <1>8, <2>3, <2>4 DEF Spawn, starts
<1>9. CASE DeleteNotify(c)
  <2>1. CASE cpc[c] = "delete" /\ cpc' = [cpc EXCEPT ![c] = "dead"]
             /\ UNCHANGED <<flags, starts>>
    BY <1>2, <2>1, LittleKept DEF flags, starts
  <2> QED
    BY <1>1, <1>6, <1>9, <2>1 DEF DeleteNotify, Goes
<1>10. CASE Reply(c)
  <2>1. /\ cpc[c] = "reply" /\ (\E y : cpc' = [cpc EXCEPT ![c] = y])
        /\ UNCHANGED <<running, maker, spc>>
    BY <1>10 DEF Reply, flags, starts
  <2> QED
    BY <1>2, <2>1, LittleKept
<1> QED
  BY <1>3, <1>4, <1>5, <1>7, <1>8, <1>9, <1>10 DEF CommandStep

LEMMA ClosedNext == Closed /\ [Next]_vars => Closed'
<1> SUFFICES ASSUME Closed, [Next]_vars PROVE Closed'
  OBVIOUS
<1>1. TypeOK'
  BY TypeNext DEF Closed
<1>2. CASE UNCHANGED <<spc, cpc, running, maker>>
  BY <1>1, <1>2, LittleKept DEF Closed, Stopped
<1>3. ASSUME NEW s \in Starters,
             RunStep(s) \/ WatchTest(s) \/ WatchCall(s) \/ WatchReturns(s)
      PROVE  UNCHANGED <<spc, cpc, running, maker>>
  BY <1>3 DEF RunStep, RunTest, RunGet, RunGoes, WatchTest, WatchCall, WatchReturns, WatchGoes,
              Crash, flags, starts, commands
<1>4. UNCHANGED vars \/ MainExits => UNCHANGED <<spc, cpc, running, maker>>
  BY DEF vars, MainExits, flags, starts, commands
<1> QED
  BY <1>1, <1>2, <1>3, <1>4, StarterClosed, ClientClosed DEF Next, Closed

LEMMA ClosedLittle == Closed => StopLeavesLittle
<1> SUFFICES ASSUME Closed, Stopped, \A s \in Starters : spc[s] # "failed",
                    NEW d \in listed
             PROVE  /\ \A e \in listed : maker[d] = maker[e] => d = e
                    /\ spc[maker[d]] # "add"
  BY DEF StopLeavesLittle
<1>1. maker[d] \in Starters /\ d \in Dirs
  BY DEF listed, Closed, TypeOK
<1>2. AtMostOne(maker[d])
  BY <1>1 DEF Closed, Little
<1> QED
  BY <1>1, <1>2 DEF AtMostOne, listed

\* Whatever the clients send and however their commands overlap each other and the start
\* threads: once a stop has closed the table and nobody starts the daemon again, each start
\* thread leaves at most one directory listed, and goes on to list no other, unless a start
\* thread could not create its loops.
THEOREM StopLeavesLittleHolds == Spec => []StopLeavesLittle
<1>1. Init => Closed
  BY ClosedInit
<1>2. Closed /\ [Next]_vars => Closed'
  BY ClosedNext
<1>3. Closed => StopLeavesLittle
  BY ClosedLittle
<1> QED
  BY <1>1, <1>2, <1>3, PTL DEF Spec
================================================================================
