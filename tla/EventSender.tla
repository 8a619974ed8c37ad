------------------------------ MODULE EventSender ------------------------------
(***************************************************************************)
(* How the daemon tells the index base of the events: the loop run() takes *)
(* one from the queue each second, makes its document and starts a thread, *)
(* sendXmlContent(), which gets a pointer to a pair in the frame of the    *)
(* loop, copies it and sends it under xmlSockLock (ANotifyDaemon.cpp       *)
(* 317-359).  The pair is local to the block of the if: it is destroyed    *)
(* right after pthread_create(), before the loop sleeps, and the next turn *)
(* makes another in its place.  Only a thread that copies it before the    *)
(* block ends is sure of its document; any other is late, and reads        *)
(* destroyed memory or the document of a later event.                      *)
(*                                                                         *)
(* The queue is the one ANotifyEvents implements.  A document is the id of *)
(* its event, a thread is named after the event it was started for.  There *)
(* is one loop, as before a restart.                                       *)
(***************************************************************************)
EXTENDS Integers, Sequences, SequencesExt

CONSTANTS Wds, MaxEvents

ASSUME SenderAssumption == MaxEvents \in Nat

VARIABLES
  chan, out, \* the event queue
  proc,      \* the process: "up", "ended" (by exit), "broken" (by a signal)
  running,   \* m_running
  pc,        \* run(): "test" (or asleep before it), "get", "start", "block", "end"
  xmlStr,    \* its document
  pair,      \* daemon_xml: [live, doc]
  thread,    \* sendXmlContent() of each event: "none", "new", "wait", "send", "end"
  xml,       \* xmlContent of each thread
  lock,      \* who holds xmlSockLock
  base,      \* the index base: "open", "left", "reset" (its host has answered so)
  received,  \* history: the documents it received, each with the thread that sent it
  told,      \* history: the events with a document
  threadless,\* history: the events whose pthread_create() failed
  lost,      \* history: the documents sent after it left, with their threads
  late       \* history: the threads that copied a pair that was not their own any more

queueVars  == <<chan, out>>
loopVars   == <<pc, xmlStr, pair, told, threadless>>
threadVars == <<thread, xml, lock>>
baseVars   == <<base, received, lost>>
vars       == <<queueVars, proc, running, loopVars, threadVars, baseVars, late>>

\* Any event may get lost, as events of a watch do that the program does not know: the
\* removals of watches lose no others
Queue == INSTANCE EventChannel WITH watch <- [d \in Wds |-> "kernel"]

Ids   == 1..MaxEvents
Empty == 0    \* the document ""
Junk  == -1   \* what destroyed memory may hold
Free  == 0    \* xmlSockLock is free

Init ==
  /\ chan = {} /\ out = <<>>
  /\ proc = "up" /\ running = TRUE
  /\ pc = "test" /\ xmlStr = Empty /\ pair = [live |-> FALSE, doc |-> Empty]
  /\ thread = [i \in Ids |-> "none"] /\ xml = [i \in Ids |-> Empty] /\ lock = Free
  /\ base = "open" /\ received = <<>> /\ told = {} /\ threadless = {}
  /\ lost = {} /\ late = {}

-----------------------------------------------------------------------------
(* run() *)

\* After sleep(1), or at first
IsRunning ==
  /\ pc = "test"
  /\ pc' = IF running THEN "get" ELSE "end"
  /\ UNCHANGED <<queueVars, xmlStr, pair, told, threadless, threadVars, baseVars, late>>

\* MIToBI() makes no document of some events; the pair is made empty first
Make(i) ==
  /\ \/ xmlStr' = Empty /\ told' = told
     \/ xmlStr' = i /\ told' = told \cup {i}
  /\ pair' = [live |-> TRUE, doc |-> Empty]
  /\ pc' = "start"
  /\ UNCHANGED <<threadless, threadVars, baseVars, late>>

\* Mutant: the event stays in the queue
PeekEvent ==
  /\ pc = "get"
  /\ \E e \in chan : (\A f \in chan : e.id <= f.id) /\ out' = Append(out, e) /\ Make(e.id)
  /\ UNCHANGED chan

GetEvent ==
  /\ pc = "get"
  /\ \E e \in chan : Queue!Take(e) /\ Make(e.id)

NoEvent ==
  /\ pc = "get" /\ chan = {}
  /\ pc' = "test"
  /\ UNCHANGED <<queueVars, xmlStr, pair, told, threadless, threadVars, baseVars, late>>

\* pthread_create() may fail, and its result is not looked at
Start ==
  /\ pc = "start"
  /\ pair' = [pair EXCEPT !.doc = xmlStr]
  /\ \/ thread' = [thread EXCEPT ![Last(out).id] = "new"] /\ threadless' = threadless
     \/ threadless' = threadless \cup {Last(out).id} /\ thread' = thread
  /\ pc' = "block"
  /\ UNCHANGED <<queueVars, xmlStr, told, xml, lock, baseVars, late>>

\* The end of the block destroys the pair, and the loop sleeps
EndBlock ==
  /\ pc = "block"
  /\ pair' = [pair EXCEPT !.live = FALSE] /\ pc' = "test"
  /\ UNCHANGED <<queueVars, xmlStr, told, threadless, threadVars, baseVars, late>>

RunStep == /\ proc = "up" /\ UNCHANGED <<proc, running>>
           /\ \/ IsRunning \/ GetEvent \/ NoEvent \/ Start \/ EndBlock

-----------------------------------------------------------------------------
(* sendXmlContent() *)

\* The pair is the one this thread was started with
Own(i) == pair.live /\ Last(out).id = i /\ pc = "block"

\* What a copy of the pair may give: anything when the pair is destroyed
Copied == IF pair.live THEN {pair.doc} ELSE {pair.doc, Empty, Junk}

Copy(i) ==
  /\ thread[i] = "new"
  /\ \/ /\ \E d \in Copied : xml' = [xml EXCEPT ![i] = d]
        /\ thread' = [thread EXCEPT ![i] = "wait"] /\ proc' = proc
     \/ ~pair.live /\ proc' = "broken" /\ UNCHANGED <<xml, thread>>
  /\ late' = IF Own(i) THEN late ELSE late \cup {i}
  /\ UNCHANGED <<lock, baseVars>>

\* Mutant: the lock is not waited for
LockAnyway(i) ==
  /\ thread[i] = "wait"
  /\ lock' = i /\ thread' = [thread EXCEPT ![i] = "send"]
  /\ UNCHANGED <<proc, xml, baseVars, late>>

\* Mutant: a thread that finds the lock held gives up
TryLock(i) ==
  /\ thread[i] = "wait"
  /\ lock' = IF lock = Free THEN i ELSE lock
  /\ thread' = [thread EXCEPT ![i] = IF lock = Free THEN "send" ELSE "end"]
  /\ UNCHANGED <<proc, xml, baseVars, late>>

Lock(i) ==
  /\ thread[i] = "wait" /\ lock = Free
  /\ lock' = i /\ thread' = [thread EXCEPT ![i] = "send"]
  /\ UNCHANGED <<proc, xml, baseVars, late>>

SentBy(i) == [from |-> i, doc |-> xml[i]]

\* Mutant: the lock is not released
SendKeepsLock(i) ==
  /\ thread[i] = "send" /\ base = "open"
  /\ received' = IF xml[i] = Empty THEN received ELSE Append(received, SentBy(i))
  /\ thread' = [thread EXCEPT ![i] = "end"]
  /\ UNCHANGED <<proc, lock, base, lost, xml, late>>

\* send(), whose result is not looked at: "" sends nothing, the first document after the
\* base has left is lost, and once its host has answered with a reset SIGPIPE ends the process
Send(i) ==
  /\ thread[i] = "send"
  /\ IF base = "reset" THEN proc' = "broken" /\ UNCHANGED <<thread, lock, received, lost>>
     ELSE /\ thread' = [thread EXCEPT ![i] = "end"] /\ lock' = Free /\ proc' = proc
          /\ received' = IF base = "open" /\ xml[i] # Empty THEN Append(received, SentBy(i)) ELSE received
          /\ lost' = IF base = "left" /\ xml[i] # Empty THEN lost \cup {SentBy(i)} ELSE lost
  /\ UNCHANGED <<base, xml, late>>

ThreadStep(i) == /\ proc = "up" /\ UNCHANGED <<queueVars, running, loopVars>>
                 /\ Copy(i) \/ Lock(i) \/ Send(i)

-----------------------------------------------------------------------------
(* The rest of the daemon, the file system and the index base *)

Taken == {out[k].id : k \in DOMAIN out}

\* The file system and the other threads change the queue; events are numbered as they come
QueueStep ==
  /\ proc = "up"
  /\ \/ \E e \in Queue!Events : /\ e.id - 1 \in {0} \cup Taken \cup {f.id : f \in chan}
                               /\ Queue!Post(e)
     \/ \E e \in chan : Queue!Lose(e)
  /\ UNCHANGED <<proc, running, loopVars, threadVars, baseVars, late>>

\* The command stop, and after kill the end of main()
Stop ==
  /\ proc = "up" /\ running
  /\ running' = FALSE
  /\ UNCHANGED <<queueVars, proc, loopVars, threadVars, baseVars, late>>

Exit ==
  /\ proc = "up" /\ ~running
  /\ proc' = "ended"
  /\ UNCHANGED <<queueVars, running, loopVars, threadVars, baseVars, late>>

BaseLeaves ==
  /\ base = "open" /\ base' = "left"
  /\ UNCHANGED <<queueVars, proc, running, loopVars, threadVars, received, lost, late>>

\* The answer to a document sent after the base left
BaseResets ==
  /\ base = "left" /\ lost # {} /\ base' = "reset"
  /\ UNCHANGED <<queueVars, proc, running, loopVars, threadVars, received, lost, late>>

Next ==
  \/ RunStep
  \/ \E i \in Ids : ThreadStep(i)
  \/ QueueStep
  \/ Stop \/ Exit \/ BaseLeaves \/ BaseResets

\* Every thread of a running process gets its turn
Spec == Init /\ [][Next]_vars /\ WF_vars(RunStep) /\ \A i \in Ids : WF_vars(ThreadStep(i))

-----------------------------------------------------------------------------
(* What the sender promises *)

Pending   == {i \in Ids : thread[i] \in {"new", "wait", "send"}}
Arrived   == {received[k] : k \in DOMAIN received}
OwnDoc(i) == [from |-> i, doc |-> i]
Documents == [from : Ids, doc : {Junk} \cup Ids]

\* The threads that were started in time and copied the pair in time, if they did already
InTime == Ids \ (late \cup threadless)

\* The type invariant: one thread sends at a time, the one that holds the lock
TypeOK ==
  /\ proc \in {"up", "ended", "broken"} /\ running \in BOOLEAN
  /\ pc \in {"test", "get", "start", "block", "end"}
  /\ xmlStr \in {Empty} \cup Ids /\ pair \in [live : BOOLEAN, doc : {Empty} \cup Ids]
  /\ thread \in [Ids -> {"none", "new", "wait", "send", "end"}]
  /\ xml \in [Ids -> {Empty, Junk} \cup Ids]
  /\ \A i \in Ids : thread[i] = "send" <=> lock = i
  /\ lock \in {Free} \cup Ids
  /\ base \in {"open", "left", "reset"}
  /\ told \subseteq Taken /\ late \subseteq Taken /\ threadless \subseteq Taken
  /\ Arrived \cup lost \subseteq Documents

\* "afin de ne pas repeter l'evenement" (specifications_systeme.tex:8): no event's thread
\* sends twice, and a thread that copied its pair before the block of run() ended sends the
\* document of its own event: the base receives a document twice only from a late thread
NoneRepeated ==
  /\ \A j, k \in DOMAIN received : received[j].from = received[k].from => j = k
  /\ \A s \in Arrived, l \in lost : s.from # l.from
  /\ \A s \in Arrived \cup lost : s.from \in InTime => s.doc = s.from /\ s.doc \in told

\* Apart from the events of late threads and of threads that could not be created, no
\* document goes astray inside the daemon: one that was made is received, or still with
\* run() or its thread, or it was sent to a base that had left
Conserved ==
  \A i \in told \cap InTime :
    \/ OwnDoc(i) \in Arrived
    \/ OwnDoc(i) \in lost /\ base # "open"
    \/ i \in Pending /\ (thread[i] # "new" => xml[i] = i)
    \/ pc = "start" /\ xmlStr = i

\* Every other event with a document is told to the base in the end, while the base stays
\* and the daemon lives, whatever the late threads do meanwhile
EveryEventTold ==
  \A i \in Ids : i \in told ~> OwnDoc(i) \in Arrived \/ base # "open" \/ proc # "up" \/ i \notin InTime

\* "Il doit pouvoir gerer les cas de deconnexion (brutales ou non), en se rememorant de toutes
\* les informations a envoyer" (specifications_systeme.tex:13): what the base did not receive
\* of a thread in time is still in the daemon
Remembered ==
  \A i \in told \cap InTime :
    \/ OwnDoc(i) \in Arrived
    \/ proc = "up" /\ (i \in Pending \/ (pc = "start" /\ xmlStr = i))
    \/ proc = "ended"
================================================================================
