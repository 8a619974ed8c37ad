---------------------------- MODULE ANotifyEvents -----------------------------
(***************************************************************************)
(* The event queue of class ANotify (src/src/daemon/ANotify.cpp): a thread  *)
(* of the daemon calls waitForEvents() in a loop, which reads the kernel's  *)
(* events into the shared buffer m_buf and pushes them on m_events under    *)
(* the event write lock; another calls getEvent() in a loop, which copies   *)
(* the first event under the read lock and pops it under no lock at all.    *)
(*                                                                          *)
(* The daemon starts one thread of each kind on start and forgets about the *)
(* old ones on restart, so that two of each may run; Listeners and          *)
(* Consumers are those threads.  Events are taken to have one size, so that *)
(* an event overwritten in m_buf is replaced by a whole other one.          *)
(***************************************************************************)
EXTENDS Integers, Sequences, Functions

CONSTANTS
  Listeners,  \* threads in ANotifyDaemon::waitForEvents
  Consumers,  \* threads in ANotifyDaemon::run
  Wds,        \* watch descriptors
  Slots,      \* events m_buf holds (ANOTIFY_BUFF_LENGTH)
  KernelMax,  \* events the kernel queues before it overflows (max_queued_events)
  MaxEvents,  \* bound: number of events that happen
  NoThread    \* the event write lock is free

ASSUME EventAssumption ==
  /\ Wds \subseteq Nat \ {0}
  /\ Slots \in Nat \ {0}
  /\ KernelMax \in Nat \ {0}
  /\ MaxEvents \in Nat
  /\ NoThread \notin Listeners

VARIABLES
  watch,      \* per descriptor: "none", "kernel" (held by the kernel only),
              \* "watched" (in m_watches too), "removed" (in neither)
  happened,   \* number of events that happened
  kq,         \* the kernel's queue
  buf,        \* m_buf
  lpc,        \* where each listener stands in waitForEvents()
  len,        \* events each listener's read returned
  pos,        \* next event of m_buf each listener handles
  writer,     \* the holder of the event write lock
  mEvents,    \* m_events
  cpc,        \* where each consumer stands in getEvent()
  got,        \* the event each consumer copied
  out,        \* history: the events getEvent() returned
  corrupt     \* m_events is damaged: what happens next is undefined

watchVars    == <<watch, happened, kq>>
listenerVars == <<buf, lpc, len, pos, writer>>
consumerVars == <<cpc, got, out, corrupt>>
vars == <<watchVars, listenerVars, consumerVars, mEvents>>

Event(i, d) == [id |-> i, wd |-> d]
Overflow    == Event(0, -1)   \* IN_Q_OVERFLOW
NoEvent     == Event(0, 0)
Events      == [id : 1..MaxEvents, wd : Wds]

Init ==
  /\ watch \in [Wds -> {"none", "watched"}]
  /\ happened = 0
  /\ kq = <<>>
  /\ buf = [i \in 1..Slots |-> NoEvent]
  /\ lpc = [l \in Listeners |-> "read"]
  /\ len = [l \in Listeners |-> 0]
  /\ pos = [l \in Listeners |-> 1]
  /\ writer = NoThread
  /\ mEvents = <<>>
  /\ cpc = [c \in Consumers |-> "peek"]
  /\ got = [c \in Consumers |-> NoEvent]
  /\ out = <<>>
  /\ corrupt = FALSE

----------------------------------------------------------------------------
(* The kernel's queue, and the watches as ANotifyWatches changes them *)

Overflowed == \E i \in 1..Len(kq) : kq[i] = Overflow

\* A full queue drops the event and ends with one overflow event
KernelEvent(d) ==
  /\ happened < MaxEvents
  /\ watch[d] \in {"kernel", "watched"}
  /\ happened' = happened + 1
  /\ kq' = IF Len(kq) < KernelMax THEN Append(kq, Event(happened + 1, d))
           ELSE IF Overflowed THEN kq
           ELSE Append(kq, Overflow)
  /\ UNCHANGED <<watch, listenerVars, consumerVars, mEvents>>

WatchChanges(d, from, to) ==
  /\ watch[d] = from
  /\ watch' = [watch EXCEPT ![d] = to]
  /\ UNCHANGED <<happened, kq, listenerVars, consumerVars, mEvents>>

\* inotify_add_watch, then m_watches.insert
AddWatch(d)    == WatchChanges(d, "none", "kernel") \/ WatchChanges(d, "kernel", "watched")
\* clearWatch: inotify_rm_watch and m_watches.erase
RemoveWatch(d) == WatchChanges(d, "watched", "removed")
\* removeAll() forgets every watch, and takes only the first one from the kernel
ForgetWatch(d) == WatchChanges(d, "watched", "kernel")
\* the directory of a watch that only the kernel holds is deleted
DropWatch(d)   == WatchChanges(d, "kernel", "removed")

----------------------------------------------------------------------------
(* waitForEvents() *)

\* Mutant: the size of m_buf is not passed to read()
ReadUnbounded(l) ==
  /\ lpc[l] = "read"
  /\ kq # <<>>
  /\ buf' = [i \in 1..Slots |-> IF i <= Len(kq) THEN kq[i] ELSE buf[i]]
  /\ kq' = <<>>
  /\ len' = [len EXCEPT ![l] = Len(kq)]
  /\ pos' = [pos EXCEPT ![l] = 1]
  /\ lpc' = [lpc EXCEPT ![l] = "lock"]
  /\ UNCHANGED <<watch, happened, writer, consumerVars, mEvents>>

Lesser(m, n) == IF m < n THEN m ELSE n

\* read() blocks on an empty queue, and fills m_buf with the oldest events
Read(l) ==
  LET n == Lesser(Len(kq), Slots)
  IN /\ lpc[l] = "read"
     /\ kq # <<>>
     /\ buf' = [i \in 1..Slots |-> IF i <= n THEN kq[i] ELSE buf[i]]
     /\ kq' = SubSeq(kq, n + 1, Len(kq))
     /\ len' = [len EXCEPT ![l] = n]
     /\ pos' = [pos EXCEPT ![l] = 1]
     /\ lpc' = [lpc EXCEPT ![l] = "lock"]
     /\ UNCHANGED <<watch, happened, writer, consumerVars, mEvents>>

\* IN_EVENT_WRITE_BEGIN: the readers of the lock are the single step Peek
Lock(l) ==
  /\ lpc[l] = "lock"
  /\ writer = NoThread
  /\ writer' = l
  /\ lpc' = [lpc EXCEPT ![l] = "push"]
  /\ UNCHANGED <<watchVars, buf, len, pos, consumerVars, mEvents>>

Known(e) == e.wd \in Wds /\ watch[e.wd] = "watched"

\* Mutant: push_front for push_back
PushFront(l) ==
  LET e == buf[pos[l]]
  IN /\ lpc[l] = "push"
     /\ pos[l] <= len[l]
     /\ mEvents' = IF Known(e) THEN <<e>> \o mEvents ELSE mEvents
     /\ pos' = [pos EXCEPT ![l] = @ + 1]
     /\ UNCHANGED <<watchVars, buf, lpc, len, writer, consumerVars>>

\* One turn of the loop: events of watches findWatch() does not know are dropped
Push(l) ==
  LET e == buf[pos[l]]
  IN /\ lpc[l] = "push"
     /\ pos[l] <= len[l]
     /\ mEvents' = IF Known(e) THEN Append(mEvents, e) ELSE mEvents
     /\ pos' = [pos EXCEPT ![l] = @ + 1]
     /\ UNCHANGED <<watchVars, buf, lpc, len, writer, consumerVars>>

\* Mutant: IN_EVENT_WRITE_END is forgotten
UnlockForgotten(l) ==
  /\ lpc[l] = "push"
  /\ pos[l] > len[l]
  /\ lpc' = [lpc EXCEPT ![l] = "read"]
  /\ UNCHANGED <<watchVars, buf, len, pos, writer, consumerVars, mEvents>>

Unlock(l) ==
  /\ lpc[l] = "push"
  /\ pos[l] > len[l]
  /\ writer' = NoThread
  /\ lpc' = [lpc EXCEPT ![l] = "read"]
  /\ UNCHANGED <<watchVars, buf, len, pos, consumerVars, mEvents>>

----------------------------------------------------------------------------
(* getEvent(): peekEvent() under the read lock, then pop_front() *)

Peek(c) ==
  /\ cpc[c] = "peek"
  /\ writer = NoThread
  /\ mEvents # <<>>
  /\ got' = [got EXCEPT ![c] = Head(mEvents)]
  /\ cpc' = [cpc EXCEPT ![c] = "pop"]
  /\ UNCHANGED <<watchVars, listenerVars, out, corrupt, mEvents>>

\* pop_front() on an empty deque or during a push_back() is undefined: the pop may work
\* nevertheless (if there is something to pop), or leave a damaged deque.
PopIsSafe == mEvents # <<>> /\ writer = NoThread

\* Mutant: getEvent() does not pop what it returns
PopKeeps(c) ==
  /\ cpc[c] = "pop"
  /\ mEvents # <<>>
  /\ out' = Append(out, got[c])
  /\ cpc' = [cpc EXCEPT ![c] = "peek"]
  /\ got' = [got EXCEPT ![c] = NoEvent]
  /\ UNCHANGED <<watchVars, listenerVars, corrupt, mEvents>>

Pop(c) ==
  /\ cpc[c] = "pop"
  /\ mEvents # <<>>
  /\ mEvents' = Tail(mEvents)
  /\ out' = Append(out, got[c])
  /\ cpc' = [cpc EXCEPT ![c] = "peek"]
  /\ got' = [got EXCEPT ![c] = NoEvent]
  /\ UNCHANGED <<watchVars, listenerVars, corrupt>>

PopDamages(c) ==
  /\ cpc[c] = "pop"
  /\ ~PopIsSafe
  /\ corrupt' = TRUE
  /\ UNCHANGED <<watchVars, listenerVars, cpc, got, out, mEvents>>

----------------------------------------------------------------------------
WatchStep(d)    == AddWatch(d) \/ RemoveWatch(d) \/ ForgetWatch(d) \/ DropWatch(d)
ListenerStep(l) == Read(l) \/ Lock(l) \/ Push(l) \/ Unlock(l)
ConsumerStep(c) == Peek(c) \/ Pop(c) \/ PopDamages(c)

Next ==
  /\ ~corrupt
  /\ \/ \E d \in Wds : KernelEvent(d) \/ WatchStep(d)
     \/ \E l \in Listeners : ListenerStep(l)
     \/ \E c \in Consumers : ConsumerStep(c)

\* The scheduler runs every thread again and again
Fairness ==
  /\ \A l \in Listeners : WF_vars(~corrupt /\ ListenerStep(l))
  /\ \A c \in Consumers : WF_vars(~corrupt /\ ConsumerStep(c))

Spec == Init /\ [][Next]_vars /\ Fairness

----------------------------------------------------------------------------
(* Properties *)

\* Type invariant; a listener handles at most as many events as m_buf holds, and holds
\* the write lock exactly while it pushes.
TypeOK ==
  /\ watch \in [Wds -> {"none", "kernel", "watched", "removed"}]
  /\ happened \in 0..MaxEvents
  /\ kq \in Seq(Events \cup {Overflow}) /\ Len(kq) <= KernelMax + 1
  /\ Len(kq) > KernelMax => Overflowed
  /\ buf \in [1..Slots -> Events \cup {Overflow, NoEvent}]
  /\ lpc \in [Listeners -> {"read", "lock", "push"}]
  /\ len \in [Listeners -> 0..Slots]
  /\ pos \in [Listeners -> 1..(Slots + 1)]
  /\ writer \in Listeners \cup {NoThread}
  /\ \A l \in Listeners : lpc[l] = "push" <=> writer = l
  /\ mEvents \in Seq(Events)
  /\ cpc \in [Consumers -> {"peek", "pop"}]
  /\ got \in [Consumers -> Events \cup {NoEvent}]
  /\ \A c \in Consumers : cpc[c] = "pop" => got[c] \in Events
  /\ out \in Seq(Events)
  /\ corrupt \in BOOLEAN

OneConsumer == \A c, d \in Consumers : c = d

\* While one thread consumes, the event it copied under the lock is still the first of
\* m_events when it pops without the lock: no pop takes another event, or none.
PeekedIsHead ==
  \A c \in Consumers :
    cpc[c] = "pop" => mEvents # <<>> /\ Head(mEvents) = got[c]

\* The events a listener has read and not handled
Unhandled(l) == IF lpc[l] = "read" THEN {} ELSE {buf[i] : i \in pos[l]..len[l]}

\* The events of buffer and kernel queue that are on their way to m_events
OnTheWay ==
  {e \in Range(kq) \cup UNION {Unhandled(l) : l \in Listeners} :
     e.wd \in Wds /\ watch[e.wd] \in {"kernel", "watched"}}

\* While one thread listens and one consumes, the queue is a first-in first-out channel:
\* what getEvent() returns is every accepted event, once, in the order it happened,
\* but for the events of watches being added or removed.
Channel ==
  INSTANCE EventChannel WITH chan <- Range(mEvents) \cup OnTheWay

ImplementsChannel == Channel!Spec

\* An accepted event of a watch that stays known is returned by getEvent() in the end,
\* if the unlocked pop does no damage.
Accepted(e) ==
  \/ \E i \in 1..Len(kq) : kq[i] = e
  \/ \E i \in 1..Len(mEvents) : mEvents[i] = e
Taken(e) == \E i \in 1..Len(out) : out[i] = e

EventuallyTaken ==
  \A e \in Events :
    Accepted(e) ~> (Taken(e) \/ watch[e.wd] # "watched" \/ corrupt)
================================================================================
