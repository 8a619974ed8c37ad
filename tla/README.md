# A TLA+ verification of Active

Active is a desktop file indexer in three programs: a **daemon** that watches directories
(`src/src/daemon`, called MI), an **index base** on SQLite (`src/src/bi`, called BI) and a
search front end (MR, not in the repository). The programs talk through sockets, in XML
documents made and read by `src/src/common`. This directory holds the TLA+ specifications of
the parts whose behaviour depends on the order of things: threads, kernel events, commands,
failures.

## 1. Inventory

### The daemon (`src/src/daemon`)

| component | state | operations | who uses it |
|---|---|---|---|
| **Watch table** (`ANotify.cpp`, `ANotifyWatch.h`) | `m_watches` (descriptor -> watch), `m_paths` (path -> watch), `m_wDescr` in each watch, the inotify descriptor | `add`, `removeOneWatch`, `removeRecWatch`, `removeAll`, `Close`, `AClose`, `findWatch`, `getWatchPaths` | start threads add, client threads remove and list, `stop` empties it, `kill` closes it |
| **Event queue** (`ANotify.cpp`) | the kernel's queue, `m_buf`, `m_events`, the event lock | `waitForEvents`, `peekEvent`, `getEvent` | the `waitForEvents` thread produces, the `run` thread consumes |
| **Lifecycle** (`ANotifyDaemon.cpp`, `Main.cpp`) | `running`, `alive`, the pointer `notify`, the threads | `start`, `startT`, `addWatch`, `stop`, `restart`, `kill`, the two loops, `main` | client threads call it, `main` polls `alive` |
| **Command protocol** (`communicate`, `waitForClients`, `list`, `ANotifyClient.cpp`, `daemon_protocol`) | one socket and one thread per client | S, R, E, K, L, D, each answered with Y or N | the client program |
| **Event sender** (`run`, `sendXmlContent`) | the socket to the index base and its lock | one thread per event sends one document | fed by `getEvent` |
| **Properties file** (`initDaemon`, `isActiveDaemon`, `getDaemonPort`) | `daemon.prop`: process number and port | written at start, read by other daemons and by clients, deleted by `kill` | keeps a second daemon from starting |
| **Log file** | `daemon.log` | `printLog` | everybody |
| **Event masks** (`ANotifyMask`, `ANotifyEvent.h`) | constants | translation of a mask into names | log, XML |

### Common code and the index base

| component | state | operations |
|---|---|---|
| **XML messages** (`XMLGeneration`, `XMLParser`, `Indexation`) | none between documents | generation of a document per event, parsing into lists of changes |
| **Data types** (`AnyFile` and its kin, `AQuery`, `Result`, `MyDate`) | plain fields | accessors |
| **Index base** (`ActiveBI.cpp`, `SQLQuery.h`, `SQLite3DB.h`) | the database file, one statement per query | creation of the tables, `prepare`, `perform`, `fetch`, `reset` |

`Daemon.cpp`, `DaemonFork.cpp`, `MainBis.cpp`, `Main_bak.cpp`, `moteur_indexation.c`,
`ANotifyUtils_bak.h` and `test_dir.c` are superseded and built by no Makefile target. SQLite
and TinyXML are third-party. The network classes of the index base (`BaseCom`, `SearchCom`,
`IndexationCom`) are stubs.

### What is hard

- **Threads without joins.** A start leaves a thread behind, which leaves two more. `restart`
  does not wait for the loops it replaces, so two generations may serve one queue.
- **Small locks.** `running`, `alive`, each map of the watch table and the event list have
  locks held for one access; the locks that would have covered whole operations are commented
  out (`ANotify.cpp:80`, `:314`) or missing (`ANotify.cpp:395`).
- **The kernel has a state of its own.** It drops watches of deleted directories, shares one
  descriptor between two paths to one directory, overflows, and delivers events of watches
  that the program does not know yet or any more.
- **Failures half way.** A recursive removal stops at the first failure, a start that fails
  leaves `running` set, `removeAll` clears one watch of many.
- **Arguments on a stack that is gone.** `startT`, `communicate` and `sendXmlContent` receive
  a pointer to a local variable of a caller that does not wait.

What makes each part correct: for the *watch table*, that the maps, the watch objects and the
kernel agree, so that what is listed is watched and what is watched can be removed; for the
*event queue*, that it is a first-in first-out channel which loses nothing but events of
watches being added or removed; for the *lifecycle*, that a stop leaves little behind, though
start threads may still add directories, that the loops of a stopped daemon end, and that a
kill ends the process; for the *protocol*, that both ends agree on where
a command ends and that every wait for an answer ends; for the *sender*, that the index base is
told of each event once and that none goes astray inside the daemon, as far as the threads get
their document before it is destroyed; for the *properties
file*, that one daemon runs at a time and that a client finds it; for the *XML messages*, that
what is read is what was sent, and each file's texts are its own; for the *index base*, that a
base which was created has all tables but those some run could not make.

## 2. Modules

| module | models | extends or instantiates |
|---|---|---|
| `ANotifyWatches` | the watch table, with the kernel's watches and the directories | |
| `ANotifyWatchesProofs` | theorems about it | `ANotifyWatches` |
| `EventChannel` | the abstract channel the event queue promises | |
| `ANotifyEvents` | the event queue, with the kernel's queue | instantiates `EventChannel` |
| `ANotifyEventsProofs` | theorems about it | `ANotifyEvents` |
| `ANotifyDaemon` | the lifecycle: commands, start threads, loops, `main` | |
| `ANotifyDaemonProofs` | theorems about it | `ANotifyDaemon` |
| `EventSender` | the loop that takes events, and the threads that send them to the index base | instantiates `EventChannel` as its queue |
| `EventSenderProofs` | theorems about it | `EventSender` |
| `CommandProtocol` | the client program, the accept loop and the threads that answer, octet by octet | |
| `CommandProtocolProofs` | theorems about it | `CommandProtocol` |
| `PropsFile` | the start and end of daemons around `daemon.prop`, and the clients that look for one | |
| `PropsFileProofs` | theorems about it | `PropsFile` |
| `XMLMessages` | the generators and the parsers of the messages between the three programs | |
| `XMLMessagesProofs` | theorems about it | `XMLMessages` |
| `IndexBase` | the creation of the data base by several runs of the program | |
| `IndexBaseProofs` | theorems about it | `IndexBase` |
| `MCANotifyWatches`, `MCANotifyDaemon`, `MCCommandProtocol`, `MCPropsFile`, `MCXMLMessages` | instances for TLC | |

How they fit together: `EventSender` composes the sender with the abstract channel, and the
run `event_queue` and the theorem `QueueIsChannel` show that the queue of the daemon implements
that channel, so that what holds of the sender holds over the real queue with one listener and
one consumer.
`ANotifyDaemon` takes `add()` for one step, which `ANotifyWatches` takes apart;
`CommandProtocol` takes a command for one step with an outcome, which `ANotifyDaemon` takes
apart; a document is an identifier in `EventSender` and a tree in `XMLMessages`.

### `ANotifyWatches`

`mWatches`, `mPaths`, `desc` and `fdOpen` are `m_watches`, `m_paths`, `m_wDescr` and
`m_fileDescr # -1`. `kwd` is what inotify holds: the descriptor of the watch on each
directory. The module takes `add()` apart, because its outer lock is commented out: the look-up
of the path (`AddCheck`), the system call (`AddKernel`, `AddKernelFails`), the insertion in
`m_watches` (`AddByFd`), the insertion in `m_paths` (`AddByPath`). A removal holds the write
lock from its beginning to its end and is one action; the header of the module says why that
loses no outcome. `DirVanishes` and `DirAppears` are the file system: with a directory the
kernel drops its watch, and its `IN_IGNORED` event is looked at by nobody.

- Descriptors are numbered and not reused, which is what inotify does. Two paths may lead to
  one directory (`DirOf`), for which inotify returns one descriptor.
- `Covers[p]` is the set of paths that `strncmp` finds to begin with `p`: a prefix of
  characters, not of directories, so `/home/a` covers `/home/ab`.
- `removeAll()` clears the first watch only (`b = false` in its loop), so that the kernel goes
  on watching all directories but one, with nothing listed; and then it advances an
  iterator to an element that was erased. The model has the outcome in which the loop reaches
  its end; the other, an abort, ends the process, and then nothing else happens.
- The daemon hands `add()` pointers to local watches (`ANotifyDaemon.cpp:262`), which dangle
  when `addWatch` returns. The model keeps the watches alive.
- A watch may be constructed disabled (the third one of the instance is): `add()` hands it to
  the kernel all the same.
- `remove(ANotifyWatch*)`, `setEnabled` and the daemon's `removeOneWatch` and
  `recRemoveWatch` are called by nothing that is built and are left out.

### `EventChannel` and `ANotifyEvents`

A listener reads the kernel's queue `kq` into `buf` (`Read`), takes the event write lock
(`Lock`), pushes the events of known watches (`Push`) and gives the lock back (`Unlock`). A
consumer copies the first event (`Peek`, under the read lock, one step because the lock keeps
writers out and copying changes nothing) and pops it (`Pop`) without a lock. `PopDamages` is
the undefined outcome of a pop that races with a push or finds the deque empty. The watch of a
descriptor is `none`, `kernel` (the kernel delivers, the program does not know it), `watched`
or `removed`: these four are all the event queue can tell of the watch table.

Events have one size, so that an event overwritten in `m_buf` becomes a whole other one; that
inotify merges equal neighbours is left out. `EventChannel` says what is promised: an event is
posted, taken in order, and may be lost only while the program does not know its watch or when
the watch is removed. The mapping is `chan <- Range(mEvents) \cup OnTheWay`: the list, and of
what the listener has still to push and of the kernel's queue the events of watches that the
kernel holds. A full kernel queue drops the event before it enters the channel, and leaves the
`Overflow` event that the daemon drops in its turn.

The channel is a set: events are numbered as they happen, and their numbers are their order. An
event that is posted has a higher number than all before it, `Take` takes the lowest, and the
removal of a watch loses its events beyond some number.

### `ANotifyDaemon`

Every test of `running` or `alive` and every assignment to them is an action, because their
mutexes cover no more. A client thread (`cpc`) goes through the statements of `stop`,
`restart` or `kill`; `start` is `Spawn`, which succeeds or fails as `pthread_create` does. A
start thread (`spc`) copies its argument from the stack of `start()` (`CopyArgument`: it finds
it, or a path that does not exist, or crashes), tests and sets `running`, adds the directories
of its path one after the other with the test of `running` and the `stat` that `addWatch` makes
for each, and creates the two loops. `add()` is one step here: `maker[d]` is the start thread
that listed directory `d`, or `Nobody`, and `listed` the set of those that have one; the table
that `removeAll()` empties is `m_paths`, and what the kernel goes on watching is the business of
`ANotifyWatches`. The result of `addWatch` matters for the root only: `add()` may throw (`AddThrows`),
`opendir` may fail after it.
`Crash` is the use of what `kill` deleted: the process ends. Clients and start threads overlap
freely: a start is answered before `startT` runs, so that a stop, even of the same client, may
come while it is adding.

The tree has depth one, so that the recursion of `addWatch` is the loop over `todo`. `kill`
closes files and sockets and destroys mutexes as well; the flags behind the mutexes are still
read and written after that, which is what the C library of Linux does.

### `EventSender`

`run()` is the sequence `IsRunning` (which comes after the sleep of the turn before), `GetEvent`
or `NoEvent`, with `Make` (the document, which may be empty, and the empty pair), `Start` (the
assignment to the pair and `pthread_create`, which may fail: its result is ignored, and
`threadless` notes the event) and `EndBlock`. A thread `sendXmlContent` copies the pair
(`Copy`), takes `xmlSockLock` (`Lock`) and sends (`Send`). The pair is local to the block of the
`if`: it is destroyed at its closing brace (`ANotifyDaemon.cpp:341`), before the loop sleeps for
one second (`:343`), and nothing makes the block wait for the thread. So `Copied` is the
document of whatever pair is there, or, when it is destroyed, also the empty string, other
octets or a crash; a thread is sure of its own document only while the loop is still at the
brace (`Own`). `late` is the set of the threads that copied later than that. On a real machine
this can be most of them, and nothing in the code can help a late thread; the properties say
what late threads and failed creations do *not* spoil, namely the documents of all other events
(`InTime`). What the base received is recorded with the thread that sent it. The instance of
the channel takes every watch as one that the program does not know, so that any event may be
lost in the queue (`Lose`); a removal of a watch loses no others. `BaseLeaves` and `BaseResets` are the other end of the
connection: the first document sent after the index base left is lost without an error, and
after the reset that answers it the next `send()` raises SIGPIPE, which nobody ignores.

### `CommandProtocol`

A connection is two sequences of octets, `up` and `down`. A thread reads the operation
(`RecvOp`), its flag, the size and the path, each with one call of `recv()`, does the command
and sends its answer; a client sends a command in the calls of `send()` that `sendCommand`
makes, and reads the answer, for "list" the number, the sizes and the paths before it. A
`recv()` of a path may return a part (`Splits`); one of an int may, at the end of the
connection or when the daemon sent less, and the int then has any value (`Ints`). Octets are
those of commands and answers, those of paths (`Chars`) and the lowest ones of ints, which
`Digits` lists from 0 on: a number has one spelling, `Int4`, which `recv()` may cut. The process
may be killed, after which `main` ends it at any moment (`MainExits`), or be ended by SIGPIPE
(`broken`). An `accept()` that fails ends the accept loop for good, while the process and the
listening socket stay (`AcceptEnds`, `ANotifyDaemon.cpp:395`): `listens` is FALSE from then on,
the kernel still completes connections, and such a client waits for an answer for ever.

Two histories name what the code cannot help, and properties exempt it:

- `mixed`: a client was accepted before the thread of the one before it had copied the pair
  `infos_client` from the frame of the accept loop: two threads serve one socket.
- `blank`: somebody typed an empty line, on which the client does not send anything and waits
  for the answer (`ANotifyClient.cpp:238`).

After "kill" the client leaves without reading the answer, so that the answer to it, which
races with the exit of the process, is read by nobody. `list()` without an ANotify answers 'N'
and no number: the client takes that octet for the beginning of the number.

### `PropsFile`

Files are numbered in the order of creation, since a removed name leaves the file to those who
hold it open; `content` is the sequence of the daemons that wrote into each (the `pid:` and
`port:` lines are appended). `Begin` to `NotifyFails` are the system calls of `initDaemon`. A
failure after the file was written deletes it again (`ConnectFails`), but for the last one: `new
ANotify()` (`ANotifyDaemon.cpp:160`) throws when there is no inotify descriptor to be had
(`ANotify.cpp:42`), the process ends and its name stays in the file (`NotifyFails`, place
`nowatch`). `Kill` is `deletePropsFile` in `kill()`, `Exit` the end of `main`. A process may crash at any
step and leaves its file as well; `Left` is both. The index base is looked for at the port `htons(-1)` whatever the
loop over 40000..40002 says (`ConnectPorts`), so that a daemon gets as far as serving only with
an index base on port 65535; the instance has one. `getDaemonPort` returns 1 for an empty
file, which it means as an error. `overlap` records that a daemon began or was killed while
another one was starting or ending: the calls of `flock` are commented out, so that nothing
keeps two daemons apart then.

### `XMLMessages`

A document is a sequence of elements, an element a tag and its content. A message is made
(`Send`, by `MIToBI`, `MRToBI` or `BIToMR`, or it is a document of another program) and read by
the loops of the three `Interpret` functions, which lie within each other: over the children of
the root, the files of a section, the elements of a file and the words of an `INDEXAGE`, or over
the bounds of a time slot and their parts, or the elements of a `FILE`. `pc` names the loop that
runs and `tagDepth` holds the pointers `tagDepth1` to `tagDepth4`. A step is one turn of one
loop: it goes into an element (`Enter...`), takes a text (`ReadText`, `ReadWord`,
`ReadCriterion`, `ReadDatePart`, `MajField`), passes an element the loop does not look for
(`Skip`), uses the text of one that has none (`UseNull`: making a string of NULL ends the
program, `pc = "dead"`), or leaves the loop (`Leave...`, `EndOfDocument`). What a loop looks for
is in `Nested` and `Texts`, so that the four functions that read a section are one set of
actions over the table `Section`; what differs is guarded (`GetSuppressions` leaves a file at its
first `PATH`). `cur` holds the local variables, which go from one file to the next: `Forget` is
what is reset in between. Uninitialised ints hold some value of `Garbage`, a number beyond
`IntMax` is read as `IntMax`.

The generators write texts raw, without escaping (`XMLGeneration.cpp:105-149`), and TinyXML
changes them when it reads: it decodes entities, condenses white space and drops a text that is
blank. `Decode` is this change, given by the constant `Altered` for the texts that it touches,
and `Text` is what `GetText()` finds of a text in the end: the decoded one, or NULL. A `<` in a
text makes another document: the kinds `research` and `reply` are such documents, and those of
other programs, at the parsers of searches and of results.

What the model shows beside its properties: the DTD allows an `INDEXAGE` without words
(`annexes.tex:35`), but such a file is dropped (`XMLParser.cpp:355`); whether the content is
searched is written 1 or 0 and read as "true" (`XMLParser.cpp:76`), so it is always lost; an
empty word or a result without files ends the reader.

### `IndexBase`

`Check` is the test for the file, `Open` the call that makes it, then for each table `prepare`
(`Prepare`, `PrepareThrows`) and `perform` (`Step`, `StepBusy`, `Write`), `NextTable` the loop.
SQLite is external: one process writes at a time, another one that tries is refused at once
(no busy handler is set), a commit is refused while another process reads (in `prepare`, in a
`SELECT` or in a step of its own that is refused), and a statement may have been prepared on an
older schema. `missed` records the tables that some run could not make: its step was refused or
its write failed, which `perform()` only prints, so that the loop goes on without the table; or
it was refused at `prepare` or killed before it came to them.

## 3. Runs

| run | cfg | question | bounds |
|---|---|---|---|
| `watch_table` | `MCANotifyWatches.cfg` | do maps, descriptors and kernel agree while one thread adds? | 3 watches on 3 paths to 3 directories, one of them constructed disabled, 3 descriptors, one adder |
| `watch_table_racing` | `MCANotifyWatchesRacing.cfg` | and with two adders and a symbolic link? | 2 paths to one directory, 3 watches (two for one path), 2 adders |
| `event_queue` | `MCANotifyEvents.cfg` | is the queue a channel, and is every event taken? | 2 descriptors, 4 events, a buffer of 2, a kernel queue of 2 |
| `daemon_lifecycle` | `MCANotifyDaemon.cfg` | what may a stop leave behind? | 2 clients, one with every command and one with stop and restart, 2 starts, 2 directories and a path that does not exist |
| `daemon_ends` | `MCANotifyDaemonEnds.cfg` | do kills and run threads end when commands overlap? | 2 clients, one of which only kills, 2 starts, 1 directory |
| `event_sender` | `MCEventSender.cfg` | does the index base receive each document once, but for late threads? | 3 events of one watch, one of each thread per event |
| `event_sender_left` | `MCEventSenderLeft.cfg` | is what could not be sent remembered? (no) | as `event_sender` |
| `command_protocol` | `MCCommandProtocol.cfg` | do both ends stay in step, and does every wait end? | 2 clients, of two lines (5 commands) and one ("list"), lists of 0 and 2 paths of 1 and 2 octets |
| `props_file` | `MCPropsFile.cfg` | does the file name a daemon that serves? | 3 daemons, two with one process number, 2 clients, 2 ports |
| `xml_messages` | `MCXMLMessages.cfg` | is what was sent what is read? | up to two files per section, two sections of one kind, 24 contents, 1800 searches, 24 found files in results of up to two, documents of other programs, texts that TinyXML condenses, drops or decodes, `IntMax` 7, `Garbage` 0 and 6 |
| `xml_understood` | `MCXMLMessagesUnderstood.cfg` | is what the daemon tells understood? (no) | as `xml_messages` |
| `index_base` | `MCIndexBase.cfg` | which tables may be missing of a data base that was made? | 3 runs of the program, 3 tables |

**Watch table.** `LiveWatchRemovable`: a watch that delivers events is listed under a path by
which `remove` reaches it. `ListedIsWatched`: an enabled watch that is listed is the one the
kernel holds for its directory, or its directory was deleted. `RemovalStopsAtDead`: a removal
that is answered 'Y' may leave paths listed, since nobody looks at what `clearWatch` returned
(after a watched directory was deleted its path stays, and the answer is 'Y' all the same); but
the first path it leaves is one whose watch the kernel has dropped. These need one adder at a
time, and the last two that no directory has two paths. `ForgetsOnlyDeadWatches` holds without
these conditions: nothing but `removeAll()` drops a descriptor that still delivers. Three
directories, of which one path covers another, are the smallest instance in which a recursive
removal clears some, fails in the middle and leaves some; a third descriptor gives a directory
that comes back a watch of its own.

**Event queue.** `PeekedIsHead`: one consumer pops the event it copied, though it holds no lock
in between. `ImplementsChannel`: the refinement above. `EventuallyTaken`: an accepted event of
a watch that stays known is returned. A buffer and a kernel queue of two, four events and two
descriptors let the queue overflow while the buffer is full and let an event stand before,
in and after the batch in which its watch goes. Two consumers, as a restart may leave behind,
can both copy one event and then pop two; the properties are stated for one.

**Lifecycle.** `StopLeavesLittle`: once a stop has emptied the table and nobody has started
the daemon again, each start thread has at most one directory in it, and one that has any adds no
other. It may have one because it may be past its test of `running`, or inside `add()`, when
`stop` empties the table; it has no second because it tests `running` before the next one. A
start thread that could not create its loops is exempt: it sets `running` to FALSE itself and
leaves all its directories listed. The property is about `m_paths`: what the kernel goes on
watching after `removeAll()` is in `ANotifyWatches`. `RunLoopsEnd`: when the daemon
stays stopped, every run thread ends, those of two starts that both passed the test of
`running` included. `KillEnds`: a kill that got as far as deleting ends the process, by the
exit of `main` or by a crash. Two clients are what two kills need, and two starts what two
generations of loops need, and two directories show that a start thread leaves one and not two.
`KillEnds` counts a crash as an end: that `kill` deletes what other threads use may well end the
process that way. The model also
reaches the state in which a start thread whose `addWatch` failed has left `running` TRUE
without loops: every start is then answered 'Y' and does nothing until somebody stops the
daemon.

**Event sender.** `NoneRepeated`: no thread sends twice, and a thread that copied its pair in
time sends the document of its own event, which was made; so the base receives a document twice
only from a late thread. `Conserved`: a document that was made is received, or still inside the
daemon, or was sent to a base that had left, if its thread could be created and was not late.
`EveryEventTold`: such a document is received in the end, while base and daemon stay, whatever
the late threads do meanwhile. `event_sender_left` shows what is missing: the specification wants the daemon to remember
what a disconnection kept from being sent. Three events are what a thread needs to be overtaken
by two others, and one watch is enough: any event may be lost, and watches differ in nothing
here.

**Command protocol.** `InStep`: what the daemon does for a client is a prefix of what that
client sent. `AnswersOwn`: the answers a client shows are the outcomes of its own commands.
`ListsWhole`: what a client shows of a list is a prefix of what was listed, and once its last
command was done and answered, all of it. `OnlyListsBreak`: a
client that leaves ends the daemon by SIGPIPE only while a list is sent to it. `EveryWaitEnds`:
a client that gave a command comes to its next prompt or its end, unless it was not accepted
when the accept loop ended. Two lines are what a
disturbed answer to the first needs to be seen in the second; the second client asks for a list,
the only command of several `send()` and thus the only one whose middle a kill or an exit can
meet.

**Properties file.** `NoStaleFile`: whatever overlaps, a name in the file that can be found is
that of a daemon that lives, crashed, or failed to make its inotify descriptor. `OneDaemon`, `FileNamesDaemon`, `RefusedForADaemon`: if
starts and kills do not overlap, one daemon at a time passes the test, clients find its port
(unless one crashed or failed so) and "A daemon is already running" is said only while one runs
or after a crash or such a failure. Three daemons let one start after another ended while a third is refused; two share a
process number, which is what lets a daemon accept the file of one that crashed.

**XML messages.** `OwnTexts`: every text of a file that was read comes from one element of the
document, but for a group or a size it lacks. `DtdRead`: a document of the DTD in which no text
and no `INDEXAGE` is empty is read whole. `SearchKept`: a search with a word and no blank text
arrives with the word and the criteria that were sent, as TinyXML gives them back, and with the
time slot; `CONTENT` is left out, since it is always lost. `ResultsShown`: a result arrives with
every file in order and its own data, as TinyXML gives them back, if no text but the date of the
last change is missing or blank. `xml_understood`: the document of an event is not of the DTD and nothing of it is read.
Values that go from one file to the next need two files, and a section that replaces an earlier
one needs two sections.

**Index base.** `Complete`: when nobody creates any more, every table is there or is one that
some run could not make (`missed`), though each of several runs gives up at the first table that
another one made: giving up loses nothing, since that other one goes on from there. There is no
table that must be there: two runs may refuse each other even the first one, after which every
run fails at its `SELECT`. `MadeOnce`: nobody completes a base whose file exists. Three tables are a first, a
last and one in between; three runs let two give up behind a third.

**Deadlock** is switched off where the process may really end or wait for ever (the bound on
events is reached, every start was used, the process exited, the message was read); the two
runs of the watch table check it.

**Fairness.** `ANotifyEvents`: weak fairness of each listener and each consumer thread, since
both loops sleep or block but are scheduled again; no event ever has to happen, and a consumer
is not assumed to win the lock against a listener that never lets go. `ANotifyDaemon`: weak
fairness of each start thread, each run thread, each command that has begun and `main`; none
for the `waitForEvents` threads, which block in `read()` until a directory changes, and none
for clients, which need not send anything. `EventSender`: weak fairness of `run()`, which wakes up
from its sleep, and of each sending thread; a thread that waits for the lock is not assumed to win it, which it does because
there are finitely many others that each send once. `CommandProtocol`: weak fairness of the
accept loop (as long as it goes on), of `main` after a kill, of the threads, and of a client that sends or reads what
has come; none for the users. The other modules state no fairness and have safety properties
only.

## 4. Proofs

TLAPS proves these for every value of the constants that satisfies `WatchAssumption`,
`EventAssumption`, `DaemonAssumption`, `SenderAssumption`, `ProtocolAssumption`,
`PropsAssumption`, `MessagesAssumption` or `BaseAssumption`.

- `TypeCorrect`, in each of the eight proof modules: the type invariants, which are inductive but for that of
  the messages.
  That of the event queue says that a thread holds the write lock exactly while it pushes and
  handles no more events than the buffer holds; that of the index base, that the process which
  writes holds the lock of SQLite and that tables need a file.
- `OnlyRemoveAllForgets`: `Spec => ForgetsOnlyDeadWatches`, from the type invariant. The
  argument: the descriptors a removal erases from `m_watches` are those it gave to
  `inotify_rm_watch`, and no other action erases.
- `WatchesRemovable`: with one adder, `Spec => []LiveWatchRemovable`. The property is not
  inductive. The strengthening `Coherent` says that descriptors are below the next one, that
  the watch listed under a path has that path (`PathsSound`), and that the path in the hand of
  an adder is not listed (`InHand`, where one adder is needed): so `std::map::insert` never
  keeps an older entry, and a live descriptor is listed or its adder is between the insertions.
- `ListIsTrue`: with one adder and no aliases, `Spec => []ListedIsWatched`. Here the
  strengthening adds that a descriptor belongs for ever to the directory it was created for
  (`DescSound`, about the history `wdDir`), and that the property holds already of the watch in
  the hand of an adder whose system call has returned (`HandHeld`).
- `RemovalsStopAtDead`: with one adder and no aliases, `Spec => []RemovalStopsAtDead`. The
  property speaks of the last call, so it must survive the steps after it. The strengthening
  `Settled` adds to `Coherent` and `DescSound` that a closed descriptor has no live watch
  (`ClosedIsQuiet`): a path that a removal left can come back to life only by an `add()`, which
  becomes the last call itself.
- `PopsWhatItPeeked`: with one consumer, `Spec => []PeekedIsHead`, for any number of listeners:
  a push appends behind the head, and nobody else pops.
- `QueueIsChannel`: with one listener and one consumer, `Spec => ImplementsChannel`, the
  refinement of `EventChannel`. The strengthening `Ordered` says that the numbers rise along the
  kernel's queue, along what is left of the buffer and along the list, that what was taken is
  below the list, the list below the buffer and the buffer below the kernel's queue, and that no
  event is of a watch that never was. By it a push of an event of a watch that is gone, an event
  the kernel drops and every `Read` change nothing of the channel, a push of an event of an
  unknown watch is `Lose`, the pop is `Take` because the head has the lowest number, and the
  removal of a watch loses exactly its events that are not yet in the list, which are the newest.
  Each step of the queue is matched to a step of the channel or none (`NextRefines`).
- `StopLeavesLittleHolds`: `Spec => []StopLeavesLittle`, for any number of clients and start
  threads, however their commands overlap. The property says at most one directory per thread
  that listed some; the inductive form (`Closed`) says it of every start thread (`AtMostOne`): it
  has at most one directory in the table, and none while it is between its test of `running` and
  `add()`. The step that empties the table makes it true of all at once, and the test of
  `running` keeps a thread that has added one from coming back.
- `NoneRepeatedHolds` and `ConservedHolds`, with `TypeCorrect`, of the sender. The strengthening
  `SenderInv` holds of every order of the loop, the threads and the base: the numbers of the
  events rise from those taken to those in the channel (`QueueOrdered`), so the event of a turn
  has no thread yet, and until the end of the block the pair holds its document (`Turn`); a
  thread that was started is that of an event that was taken, and every document but that of the
  turn has one, or its creation failed (`Threads`); a thread that was not late holds its own
  document, whatever others hold, and what was received or lost is exactly what the threads that
  have ended had, each once (`Sent`); only a base that left loses anything (`LostLate`).
- `InStepHolds`, `AnswersOwnHolds`, `ListsWholeHolds` and `OnlyListsBreakHolds`, for any number of
  clients, any commands and listings whose sizes fit an octet, and every way in which `recv()`
  may cut a path: the four safety properties of the command protocol, by one inductive invariant
  (`CommandingHolds`). It says of each connection, while no client was accepted too early:
    - `Accepting`: who is connected and not accepted has no thread, and the one thread that has
      not looked at `infos_client` finds its own client there; so each connection is served by
      the thread of its own client (`Served`, which also says in which places a thread may be
      whose client has left or whose connection is closed);
    - `Upward`: either nothing is on its way to the daemon and it has done what was sent, or
      there is one command `r` and two places `m <= k` in the calls of `send()` for it: the
      client has made the first `k` calls, the thread has received the first `m` pieces, and the
      octets in between spell the pieces `m + 1` to `k` and no others;
    - `Downward`: the client has left, or no answer is on its way, or one reply with its outcome
      `x` is: its first `j` pieces were sent, its first `i` pieces read, and the octets in between
      spell the rest. `ReadOf` ties `i` to the place of the client in the loop over the paths and
      to what it has shown.

  `Spells` is stated with the offsets at which pieces begin, since a concatenation of a sequence
  of sequences would need induction: the lemmas `SpellsAppend` (a `send()`), `SpellsFirst` and
  `SpellsTake` (a `recv()` of just the size of the first piece) carry the argument, and they show
  why it is enough that both ends agree on sizes, since nothing else marks where a message ends.
  `OnlyListsBreak` is inductive with it: a `reset` connection whose thread has something to send
  is one with a list (`Served`), because every other command has one `send()`.

- `NoStaleFileHolds`: `Spec => []NoStaleFile`, for any overlap. The strengthening says that who
  is about to use a file has one open (`FileHeld`) and what may stand in a file (`WritersHold`):
  the names of daemons that had it open, of which none has ended while the path still leads
  there unless it crashed or failed to make its inotify descriptor, since whoever else ends after
  writing removes the name first.
- `OneDaemonHolds` and `RefusedForADaemonHolds`: the strengthening adds that daemons alive at
  once have different process numbers (`ApartPids`) and that, without overlap, one daemon at most
  is starting, one past the test, none of them while another is dying, and that the path leads
  to its file, which begins with its number once it has written (`Alone`).
  `FileNamesDaemonHolds` adds that the port in that file is the one the daemon listens on
  (`Names`), which needs that nobody crashed and nobody failed to make its inotify descriptor: a
  name that stayed would come before the one of a later daemon with the same process number.
- `OwnTextsHolds`, `DtdReadHolds`, `SearchKeptHolds`, `ResultsShownHolds` and `TypeCorrect` of
  the messages: for documents of any length, any texts and any garbage. What a parser makes of a
  document is what its loops leave behind, so no induction over documents is needed: the
  invariant `Reading` says of each loop what its variables hold after the elements before
  `tagDepth`, each step adds one element, and the properties are what it says at the end.
    - `Place`: which loop runs, within an element of the loop around it that this loop goes into;
    - `SectionsRead`: a file that was read has its texts and words from one element (`OwnFile`),
      and in the loop over a file each variable is fresh or read in this file (`SoFar`). It needs
      that the variables are fresh again between two files (`Fresh`), which is what `Forget`
      gives, but for the group and the size;
    - `DtdSoFar`, for a document of the DTD: the words and the files so far are the first ones,
      backwards (`Backwards`), and each variable is what its element means, or fresh when the
      element is still to come (`Meant`). A variable may be taken from its own element because
      the DTD has no tag twice, and no file is dropped because what it means is complete
      (`MeantAll`);
    - `SearchRead`: each criterion is the one sent, or not set and still to come, and the parts
      of a date are read in the order in which they are written (`SearchSoFar`, `DateSoFar`).
      `SearchDocument` says what `MRToBI` writes: which elements are there, and which are when;
    - `Shapes` and `ResultsRead`: the fields of the results (`FieldsSoFar`), and one result for
      each element that was passed.

  `MessagesAssumption` says what is sent: searches and results are records of texts and numbers,
  today's date is valid, `Altered` gives texts for texts that are not empty, and the documents
  of other programs are sequences of elements whose texts, where the parser asks for one, are
  single and not empty. Nothing more is assumed of what TinyXML does to a text: `SearchKeptHolds`
  and `ResultsShownHolds` hold of whatever it gives back, for the searches and results of which it
  drops no text (`WholeSearch`, `WholeFile`). `OwnTextsHolds` speaks of
  every such document, of the DTD or not.
- `MadeOnceHolds`: from the type invariant, which says that who creates behind `open` has made
  the file.
- `CompleteHolds`: `Spec => []Complete`, for any number of runs and tables, killed, refused and
  failing writes included. The strengthening `CompleteInv`: a run that creates has seen to it that
  each table before its own is there or was missed (`Passed`), and as long as there is a file and
  a table is unaccounted for, some run in the loop is past every table there is (`Frontier`). When
  that run makes a table it stays at the frontier; when it gives up at a table, the table exists
  and the run that made it is past it; when it is refused or killed, the rest is missed.

Only model-checked:

- every liveness property (`EventuallyTaken`, `RunLoopsEnd`, `KillEnds`, `EveryEventTold`,
  `EveryWaitEnds`), which are out of the prover's reach.

## 5. Not modelled

- **The log file**: output only; its lock protects single writes.
- **The names of masks** (`ANotifyMask.cpp`): constant tables for the log. The two classes of
  events that `MIToBI` tells apart are in `XMLMessages`.
- **The data types** beside `AnyFile::majField` and the validity of dates: accessors.
- **The network side of the index base** (`BaseCom`, `SearchCom`, `IndexationCom`): stubs, and
  the rest of `SQLQuery` is used by no program (a second `prepare` of one statement, for
  instance, never happens).
- **The superseded programs** (`Daemon.cpp`, `DaemonFork.cpp`, `MainBis.cpp` and their kin),
  which no Makefile target builds, the example program, SQLite and TinyXML.
- **Paths of 300 octets and more**: the daemon and the client receive a path into an array of
  300 octets (`ANotifyDaemon.cpp:541`, `ANotifyClient.cpp:97`) without a look at its size; the
  paths of the model fit. (`daemon_protocol:9` gives the size of the path of a start as one
  octet; the code sends and receives four, as the file says of the restart, and the model has
  four.)
- **TinyXML** beyond what `Decode` says of a text and what the header of `XMLMessages` says of
  elements: which document a text with a `<` makes is not computed, but such documents are among
  those the parsers are given.
- **Outcomes of arbitrary memory** beyond a crash or another value: the dangling watches of
  `addWatch` and a destroyed mutex that is locked again are taken to work, which is what the
  code intends and what the C library does.

Much of the repository's text is therefore outside the map: `sqlite3.h` alone is 44% of the
lines, the superseded daemons are another 10%, and headers, accessors and the log are most of
the rest. Of the files whose logic runs in the programs that are built, `ANotify.cpp`,
`ANotifyDaemon.cpp`, `ANotifyClient.cpp`, `Main.cpp`, `XMLGeneration.cpp` and `XMLParser.cpp`
are modelled nearly whole, and `ActiveBI.cpp` but for its arguments and its printing.
