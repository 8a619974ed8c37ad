----------------------------- MODULE ANotifyDaemon -----------------------------
(***************************************************************************)
(* The life of the daemon (src/src/daemon/ANotifyDaemon.cpp, Main.cpp): the *)
(* commands start, stop, restart and kill that client threads execute on    *)
(* one ANotifyDaemon object, the thread each start leaves behind (startT),  *)
(* and the two loops that thread creates (waitForEvents and run).           *)
(*                                                                          *)
(* running and alive are each protected by a mutex that is held for one     *)
(* read or one write, so every test and every assignment is a step of its   *)
(* own, and anything may happen between a test and what depends on it.      *)
(* add() of the watch table is one step here: ANotifyWatches takes it apart. *)
(***************************************************************************)
EXTENDS Naturals, Sequences, FiniteSets

Ops == {"start", "stop", "restart", "kill"}

CONSTANTS
  Clients,    \* the communicate threads
  Starters,   \* the startT threads there can be (bounds the number of starts)
  First,      \* the one Main.cpp starts
  Dirs,       \* directories
  Paths,      \* the paths a start may name
  Tree,       \* [Paths -> Seq(Dirs)]: the directories readdir finds, the root first,
              \* <<>> for a path that does not exist (bound: trees of depth one)
  HomePath,   \* watchPath, the path of a start without one
  Sends,      \* [Clients -> SUBSET Ops]: the commands each client may send
  Nobody      \* stands for no start thread

ASSUME DaemonAssumption ==
  /\ First \in Starters
  /\ Tree \in [Paths -> Seq(Dirs)]
  /\ HomePath \in Paths
  /\ Sends \in [Clients -> SUBSET Ops]
  /\ Nobody \notin Starters

VARIABLES
  running, alive,
  notify,     \* the ANotify object: "open", "freed" (a dangling pointer), "null"
  maker,      \* the start thread that listed each directory in the watch table, or Nobody
  spc,        \* where each start thread stands
  path,       \* the path each start thread works on
  todo,       \* the directories it has still to add
  watchLoop,  \* where the waitForEvents thread it created stands
  runLoop,    \* where the run thread it created stands
  cpc,        \* where each client thread stands
  op,         \* the command it executes
  arg,        \* its path
  res,        \* its result: "Y" or "N" ("none" between commands)
  exited,     \* main() returned
  crashed     \* undefined behaviour ended the process

flags    == <<running, alive, notify, maker>>
starts   == <<spc, path, todo>>
loops    == <<watchLoop, runLoop>>
commands == <<cpc, op, arg, res>>
process  == <<exited, crashed>>
vars == <<flags, starts, loops, commands, process>>

Unlisted == [d \in Dirs |-> Nobody]

\* The directories in m_paths
listed == {d \in Dirs : maker[d] # Nobody}

Init ==
  /\ running = FALSE /\ alive = TRUE /\ notify = "open" /\ maker = Unlisted
  /\ spc = [s \in Starters |-> IF s = First THEN "copy" ELSE "none"]
  /\ path = [s \in Starters |-> HomePath]
  /\ todo = [s \in Starters |-> <<>>]
  /\ watchLoop = [s \in Starters |-> "none"]
  /\ runLoop = [s \in Starters |-> "none"]
  /\ cpc = [c \in Clients |-> "idle"]
  /\ op = [c \in Clients |-> "start"]
  /\ arg = [c \in Clients |-> HomePath]
  /\ res = [c \in Clients |-> "none"]
  /\ exited = FALSE /\ crashed = FALSE

Crash ==
  /\ crashed' = TRUE
  /\ UNCHANGED <<flags, starts, loops, commands, exited>>

----------------------------------------------------------------------------
(* startT() *)

StarterGoes(s, from, to) ==
  /\ spc[s] = from
  /\ spc' = [spc EXCEPT ![s] = to]
  /\ UNCHANGED <<commands, process>>

\* startT reads `this` and the path from the stack frame of start(), which has returned
\* or is about to: it finds them, or whatever the caller's later calls left there (a
\* path that does not exist, or a pointer that ends the process).
CopyArgument(s) ==
  \/ /\ StarterGoes(s, "copy", "test")
     /\ \/ UNCHANGED path
        \/ \E p \in Paths : Tree[p] = <<>> /\ path' = [path EXCEPT ![s] = p]
     /\ UNCHANGED <<flags, todo, loops>>
  \/ spc[s] = "copy" /\ Crash

TestRunning(s) ==
  /\ StarterGoes(s, "test", IF running THEN "done" ELSE "set")
  /\ UNCHANGED <<flags, path, todo, loops>>

SetRunning(s) ==
  /\ StarterGoes(s, "set", "root")
  /\ running' = TRUE
  /\ UNCHANGED <<alive, notify, maker, path, todo, loops>>

\* Mutant: addWatch does not test the result of stat()
AddRootUntested(s) ==
  /\ StarterGoes(s, "root", IF running THEN "add" ELSE "done")
  /\ todo' = [todo EXCEPT ![s] = Tree[path[s]]]
  /\ UNCHANGED <<flags, path, loops>>

\* addWatch of the root: isRunning() and stat(), whose failure ends the thread
AddRootTest(s) ==
  /\ StarterGoes(s, "root", IF running /\ Tree[path[s]] # <<>> THEN "add" ELSE "done")
  /\ todo' = [todo EXCEPT ![s] = Tree[path[s]]]
  /\ UNCHANGED <<flags, path, loops>>

\* addWatch of a directory failed: of the root, the thread ends with running TRUE; of
\* another, nobody looks at the result
AddFailed(s) ==
  StarterGoes(s, "add", IF todo[s] = Tree[path[s]] THEN "done" ELSE "next")

\* add(), and opendir(), which may fail after it
AddDirectory(s) ==
  /\ spc[s] = "add" /\ notify = "open"
  /\ Head(todo[s]) \notin listed
  /\ StarterGoes(s, "add", "next") \/ AddFailed(s)
  /\ maker' = [maker EXCEPT ![Head(todo[s])] = s]
  /\ todo' = [todo EXCEPT ![s] = Tail(@)]
  /\ UNCHANGED <<running, alive, notify, path, loops>>

\* add() throws: the path is listed, or inotify_add_watch fails
AddThrows(s) ==
  /\ notify = "open"
  /\ AddFailed(s)
  /\ todo' = [todo EXCEPT ![s] = Tail(@)]
  /\ UNCHANGED <<flags, path, loops>>

\* Mutant: the recursive call does not test running
AddNextUntested(s) ==
  /\ todo[s] # <<>>
  /\ StarterGoes(s, "next", "add")
  /\ UNCHANGED <<flags, path, todo, loops>>

\* the recursive call for the next entry of the root starts with isRunning() and stat()
AddNext(s) ==
  /\ todo[s] # <<>>
  /\ running /\ StarterGoes(s, "next", "add")
  /\ UNCHANGED <<flags, path, todo, loops>>

\* its failure is not looked at: the daemon was stopped, or the directory is gone
SkipNext(s) ==
  /\ todo[s] # <<>>
  /\ StarterGoes(s, "next", "next")
  /\ todo' = [todo EXCEPT ![s] = Tail(@)]
  /\ UNCHANGED <<flags, path, loops>>

AddEnds(s) ==
  /\ todo[s] = <<>>
  /\ StarterGoes(s, "next", "listen")
  /\ UNCHANGED <<flags, path, todo, loops>>

CreateWatchLoop(s) ==
  /\ StarterGoes(s, "listen", "run")
  /\ watchLoop' = [watchLoop EXCEPT ![s] = "test"]
  /\ UNCHANGED <<flags, path, todo, runLoop>>

CreateRunLoop(s) ==
  /\ StarterGoes(s, "run", "done")
  /\ runLoop' = [runLoop EXCEPT ![s] = "test"]
  /\ UNCHANGED <<flags, path, todo, watchLoop>>

\* pthread_create fails: setRunning(false), and what was added stays
CreateFails(s) ==
  /\ StarterGoes(s, "listen", "failed") \/ StarterGoes(s, "run", "failed")
  /\ running' = FALSE
  /\ UNCHANGED <<alive, notify, maker, path, todo, loops>>

\* the watch table is used after kill() deleted it
UsesDeleted(s) == spc[s] = "add" /\ notify # "open" /\ Crash

StarterStep(s) ==
  \/ CopyArgument(s) \/ TestRunning(s) \/ SetRunning(s)
  \/ AddRootTest(s) \/ AddDirectory(s) \/ AddThrows(s)
  \/ AddNext(s) \/ SkipNext(s) \/ AddEnds(s)
  \/ CreateWatchLoop(s) \/ CreateRunLoop(s) \/ CreateFails(s)
  \/ UsesDeleted(s)

----------------------------------------------------------------------------
(* The loops waitForEvents() and run() *)

WatchGoes(s, from, to) ==
  /\ watchLoop[s] = from
  /\ watchLoop' = [watchLoop EXCEPT ![s] = to]
  /\ UNCHANGED <<flags, starts, runLoop, commands, process>>

WatchTest(s) == WatchGoes(s, "test", IF running THEN "call" ELSE "ended")

WatchCall(s) ==
  \/ notify = "open" /\ WatchGoes(s, "call", "read")
  \/ notify # "open" /\ watchLoop[s] = "call" /\ Crash

\* read() returns when there are events, and fails when it wants: the loop breaks.  It
\* stays blocked when the descriptor is closed meanwhile.
WatchReturns(s) ==
  /\ notify = "open"
  /\ WatchGoes(s, "read", "test") \/ WatchGoes(s, "read", "ended")

RunGoes(s, from, to) ==
  /\ runLoop[s] = from
  /\ runLoop' = [runLoop EXCEPT ![s] = to]
  /\ UNCHANGED <<flags, starts, watchLoop, commands, process>>

\* Mutant: for (;;) for while (isRunning())
RunForever(s) == RunGoes(s, "test", "get")

RunTest(s) == RunGoes(s, "test", IF running THEN "get" ELSE "ended")

\* getEvent(), then sleep(1)
RunGet(s) ==
  \/ notify = "open" /\ RunGoes(s, "get", "test")
  \/ notify # "open" /\ runLoop[s] = "get" /\ Crash

----------------------------------------------------------------------------
(* The commands *)

Command(c) ==
  /\ cpc[c] = "idle"
  /\ \E o \in Sends[c], p \in Paths :
       /\ o \in {"stop", "kill"} => p = HomePath
       /\ op' = [op EXCEPT ![c] = o]
       /\ arg' = [arg EXCEPT ![c] = p]
       /\ cpc' = [cpc EXCEPT ![c] = IF o = "start" THEN "spawn"
                                    ELSE IF o = "kill" THEN "killTest" ELSE "stopTest"]
  /\ UNCHANGED <<flags, starts, loops, res, process>>

Goes(c, from, to) ==
  /\ cpc[c] = from
  /\ cpc' = [cpc EXCEPT ![c] = to]
  /\ UNCHANGED <<loops, op, arg, process>>

\* What follows stop() in each command
AfterStop(c) ==
  IF op[c] = "stop" THEN "reply" ELSE IF op[c] = "restart" THEN "spawn" ELSE "delete"

Result(c, r) == res' = [res EXCEPT ![c] = r]

StopTest(c) ==
  /\ Goes(c, "stopTest", IF running THEN "stopSet" ELSE AfterStop(c))
  /\ Result(c, IF running THEN "Y" ELSE "N")
  /\ UNCHANGED <<flags, starts>>

StopSet(c) ==
  /\ Goes(c, "stopSet", "close")
  /\ running' = FALSE
  /\ UNCHANGED <<alive, notify, maker, starts, res>>

\* Close() of the watch table, unless kill() set the pointer to NULL
StopClose(c) ==
  \/ /\ notify # "freed"
     /\ Goes(c, "close", AfterStop(c))
     /\ maker' = Unlisted
     /\ UNCHANGED <<running, alive, notify, starts, res>>
  \/ cpc[c] = "close" /\ notify = "freed" /\ Crash

\* start(): pthread_create of startT, whose success is the answer
Spawn(c) ==
  \/ /\ Goes(c, "spawn", "reply")
     /\ \E s \in Starters :
          /\ spc[s] = "none"
          /\ s = CHOOSE u \in Starters : spc[u] = "none"
          /\ spc' = [spc EXCEPT ![s] = "copy"]
          /\ path' = [path EXCEPT ![s] = arg[c]]
     /\ Result(c, "Y")
     /\ UNCHANGED <<flags, todo>>
  \/ /\ Goes(c, "spawn", "reply")
     /\ Result(c, "N")
     /\ UNCHANGED <<flags, starts>>

KillTest(c) ==
  /\ Goes(c, "killTest", IF alive THEN "stopTest" ELSE "reply")
  /\ Result(c, "N")
  /\ UNCHANGED <<flags, starts>>

\* if (notify != NULL) { delete notify; notify = NULL; }
DeleteNotify(c) ==
  \/ /\ notify = "open"
     /\ Goes(c, "delete", "null")
     /\ notify' = "freed"
     /\ maker' = Unlisted
     /\ UNCHANGED <<running, alive, starts, res>>
  \/ /\ notify = "null"
     /\ Goes(c, "delete", "dead")
     /\ UNCHANGED <<flags, starts, res>>
  \/ cpc[c] = "delete" /\ notify = "freed" /\ Crash

NullNotify(c) ==
  /\ Goes(c, "null", "dead")
  /\ notify' = "null"
  /\ UNCHANGED <<running, alive, maker, starts, res>>

\* Mutant: kill() leaves alive TRUE
StaysAlive(c) ==
  /\ Goes(c, "dead", "reply")
  /\ Result(c, "Y")
  /\ UNCHANGED <<flags, starts>>

SetDead(c) ==
  /\ Goes(c, "dead", "reply")
  /\ alive' = FALSE
  /\ Result(c, "Y")
  /\ UNCHANGED <<running, notify, maker, starts>>

\* send() of the answer.  The locals mean nothing until the next command: reset here.
Reply(c) ==
  /\ cpc[c] = "reply"
  /\ cpc' = [cpc EXCEPT ![c] = IF op[c] = "kill" THEN "ended" ELSE "idle"]
  /\ op' = [op EXCEPT ![c] = "start"]
  /\ arg' = [arg EXCEPT ![c] = HomePath]
  /\ res' = [res EXCEPT ![c] = "none"]
  /\ UNCHANGED <<flags, starts, loops, process>>

CommandStep(c) ==
  \/ StopTest(c) \/ StopSet(c) \/ StopClose(c) \/ Spawn(c)
  \/ KillTest(c) \/ DeleteNotify(c) \/ NullNotify(c) \/ SetDead(c)
  \/ Reply(c)

----------------------------------------------------------------------------
\* main() polls isAlive() every second; its exit ends every thread
MainExits ==
  /\ ~alive
  /\ exited' = TRUE
  /\ UNCHANGED <<flags, starts, loops, commands, crashed>>

RunStep(s) == RunTest(s) \/ RunGet(s)

Up == ~exited /\ ~crashed

Next ==
  /\ Up
  /\ \/ \E s \in Starters : \/ StarterStep(s) \/ RunStep(s)
                            \/ WatchTest(s) \/ WatchCall(s) \/ WatchReturns(s)
     \/ \E c \in Clients : Command(c) \/ CommandStep(c)
     \/ MainExits

\* Every thread that is not blocked is scheduled again and again; no event need ever
\* come, and no client need ever send a command.
Fairness ==
  /\ \A s \in Starters : /\ WF_vars(Up /\ StarterStep(s))
                         /\ WF_vars(Up /\ RunStep(s))
  /\ \A c \in Clients : WF_vars(Up /\ CommandStep(c))
  /\ WF_vars(Up /\ MainExits)

Spec == Init /\ [][Next]_vars /\ Fairness

----------------------------------------------------------------------------
(* Properties *)

\* Type invariant; a start thread adds only what readdir found, and the loops are created
\* one after the other, after the watches.
TypeOK ==
  /\ running \in BOOLEAN /\ alive \in BOOLEAN
  /\ notify \in {"open", "freed", "null"}
  /\ maker \in [Dirs -> Starters \cup {Nobody}]
  /\ spc \in [Starters -> {"none", "copy", "test", "set", "root", "add", "next", "listen",
                           "run", "done", "failed"}]
  /\ path \in [Starters -> Paths]
  /\ todo \in [Starters -> Seq(Dirs)]
  /\ watchLoop \in [Starters -> {"none", "test", "call", "read", "ended"}]
  /\ runLoop \in [Starters -> {"none", "test", "get", "ended"}]
  /\ \A s \in Starters :
       /\ spc[s] = "add" => todo[s] # <<>>
       /\ watchLoop[s] # "none" => spc[s] \in {"run", "done", "failed"}
       /\ runLoop[s] # "none" => spc[s] = "done" /\ watchLoop[s] # "none"
       /\ spc[s] = "run" => watchLoop[s] # "none"
  /\ cpc \in [Clients -> {"idle", "stopTest", "stopSet", "close", "spawn", "killTest",
                          "delete", "null", "dead", "reply", "ended"}]
  /\ op \in [Clients -> Ops] /\ arg \in [Clients -> Paths]
  /\ res \in [Clients -> {"none", "Y", "N"}]
  /\ exited \in BOOLEAN /\ crashed \in BOOLEAN

\* A stop may overtake start threads that are adding directories.  Once its Close() is
\* over and the daemon is not started again, every such thread leaves at most the one
\* directory listed (m_paths) whose test of running it had already passed, and it lists no
\* second one.  The exception is a start thread whose pthread_create failed: it resets
\* running without a Close().  (The kernel's watches are those of ANotifyWatches.)
Stopped == ~running /\ \A c \in Clients : cpc[c] # "close"

StopLeavesLittle ==
  Stopped /\ (\A s \in Starters : spc[s] # "failed") =>
    /\ \A d, e \in listed : maker[d] = maker[e] => d = e
    /\ \A d \in listed : spc[maker[d]] # "add"

\* When the daemon stays stopped, every run thread comes to an end, however many starts
\* and restarts there were.
RunLoopsEnd ==
  (<>[]~running) => <>[](~Up \/ \A s \in Starters : runLoop[s] \in {"none", "ended"})

\* A kill that found the daemon alive ends the process.
KillEnds == \A c \in Clients : (cpc[c] = "delete") ~> ~Up
================================================================================
