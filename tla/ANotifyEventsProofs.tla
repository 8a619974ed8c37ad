------------------------- MODULE ANotifyEventsProofs --------------------------
(* Theorems about the event queue of ANotify, for every number of threads, every    *)
(* buffer size and every kernel queue limit.                                        *)
EXTENDS ANotifyEvents, SequenceTheorems, TLAPS

----------------------------------------------------------------------------
(* Type correctness *)

LEMMA EventTypes ==
  ASSUME NEW i \in 1..MaxEvents, NEW d \in Wds
  PROVE  Event(i, d) \in Events
BY DEF Event, Events

LEMMA TypeInit == Init => TypeOK
<1> SUFFICES ASSUME Init PROVE TypeOK
  OBVIOUS
<1> USE EventAssumption DEF Init
<1>1. happened \in 0..MaxEvents /\ Len(kq) = 0
  OBVIOUS
<1>2. \A l \in Listeners : lpc[l] = "push" <=> writer = l
  OBVIOUS
<1>3. len \in [Listeners -> 0..Slots] /\ pos \in [Listeners -> 1..(Slots + 1)]
  OBVIOUS
<1>4. ~(Len(kq) > KernelMax) /\ Len(kq) <= KernelMax + 1
  BY <1>1
<1>5. /\ kq \in Seq(Events \cup {Overflow})
      /\ mEvents \in Seq(Events)
      /\ out \in Seq(Events)
  OBVIOUS
<1>6. /\ watch \in [Wds -> {"none", "kernel", "watched", "removed"}]
      /\ buf \in [1..Slots -> Events \cup {Overflow, NoEvent}]
      /\ lpc \in [Listeners -> {"read", "lock", "push"}]
  OBVIOUS
<1>7. /\ cpc \in [Consumers -> {"peek", "pop"}]
      /\ got \in [Consumers -> Events \cup {NoEvent}]
      /\ \A c \in Consumers : cpc[c] # "pop"
  OBVIOUS
<1>8. writer \in Listeners \cup {NoThread} /\ corrupt \in BOOLEAN
  OBVIOUS
<1> HIDE DEF Init
<1> QED
  BY <1>1, <1>2, <1>3, <1>4, <1>5, <1>6, <1>7, <1>8, Zenon DEF TypeOK

LEMMA ReadType ==
  ASSUME TypeOK, NEW l \in Listeners, Read(l)
  PROVE  TypeOK'
<1> USE EventAssumption DEF TypeOK
<1> DEFINE n == Lesser(Len(kq), Slots)
<1>1. n \in Nat /\ n <= Len(kq) /\ n \in 0..Slots /\ Len(kq) \in Nat
  BY DEF Lesser
<1>2. \A i \in 1..n : kq[i] \in Events \cup {Overflow}
  BY <1>1
<1>3. /\ buf' = [i \in 1..Slots |-> IF i <= n THEN kq[i] ELSE buf[i]]
      /\ kq' = SubSeq(kq, n + 1, Len(kq))
      /\ len' = [len EXCEPT ![l] = n]
      /\ pos' = [pos EXCEPT ![l] = 1]
      /\ lpc[l] = "read" /\ lpc' = [lpc EXCEPT ![l] = "lock"]
      /\ UNCHANGED <<watch, happened, writer, consumerVars, mEvents>>
  BY DEF Read
<1> HIDE DEF n
<1>4. buf' \in [1..Slots -> Events \cup {Overflow, NoEvent}]
  BY <1>1, <1>2, <1>3
<1>5. kq' \in Seq(Events \cup {Overflow}) /\ Len(kq') <= KernelMax
  <2>1. n >= 1
    BY DEF Read, Lesser, n
  <2> QED
    BY <1>1, <1>3, <2>1
<1>6. /\ len' \in [Listeners -> 0..Slots]
      /\ pos' \in [Listeners -> 1..(Slots + 1)]
      /\ lpc' \in [Listeners -> {"read", "lock", "push"}]
  BY <1>1, <1>3
<1>7. \A k \in Listeners : lpc'[k] = "push" <=> writer' = k
  BY <1>3
<1>8. /\ Len(kq') > KernelMax => Overflowed'
      /\ Len(kq') <= KernelMax + 1
  BY <1>5
<1>9. writer' \in Listeners \cup {NoThread}
  BY <1>3
<1> QED
  BY <1>3, <1>4, <1>5, <1>6, <1>7, <1>8, <1>9 DEF consumerVars

LEMMA KernelEventType ==
  ASSUME TypeOK, NEW d \in Wds, KernelEvent(d)
  PROVE  TypeOK'
<1> USE EventAssumption DEF TypeOK
<1>1. happened' \in 1..MaxEvents /\ happened' = happened + 1
  BY DEF KernelEvent
<1>2. Event(happened + 1, d) \in Events
  BY <1>1, EventTypes
<1>3. /\ kq' \in Seq(Events \cup {Overflow}) /\ Len(kq') <= KernelMax + 1
      /\ Len(kq') > KernelMax => Overflowed'
  <2>1. CASE Len(kq) < KernelMax
    <3>1. kq' = Append(kq, Event(happened + 1, d))
      BY <2>1 DEF KernelEvent
    <3> QED
      BY <3>1, <2>1, <1>2
  <2>2. CASE Len(kq) >= KernelMax /\ Overflowed
    BY <2>2 DEF KernelEvent, Overflowed
  <2>3. CASE Len(kq) >= KernelMax /\ ~Overflowed
    <3>1. kq' = Append(kq, Overflow) /\ Len(kq) = KernelMax
      BY <2>3 DEF KernelEvent
    <3>2. kq' \in Seq(Events \cup {Overflow}) /\ Len(kq') = KernelMax + 1
      BY <3>1
    <3>3. kq'[KernelMax + 1] = Overflow /\ KernelMax + 1 \in 1..Len(kq')
      BY <3>1, <3>2
    <3> QED
      BY <3>2, <3>3 DEF Overflowed
  <2> QED
    BY <2>1, <2>2, <2>3
<1> QED
  BY <1>1, <1>3 DEF KernelEvent, listenerVars, consumerVars

LEMMA TypeNext == TypeOK /\ [Next]_vars => TypeOK'
<1> SUFFICES ASSUME TypeOK, [Next]_vars PROVE TypeOK'
  OBVIOUS
<1> USE EventAssumption
<1>1. CASE UNCHANGED vars
  BY <1>1 DEF vars, watchVars, listenerVars, consumerVars, TypeOK, Overflowed
<1>2. ASSUME NEW d \in Wds, WatchStep(d) PROVE TypeOK'
  BY <1>2
  DEF WatchStep, AddWatch, RemoveWatch, ForgetWatch, DropWatch, WatchChanges,
      listenerVars, consumerVars, TypeOK, Overflowed
<1>3. ASSUME NEW l \in Listeners, Lock(l) PROVE TypeOK'
  BY <1>3 DEF Lock, watchVars, consumerVars, TypeOK, Overflowed
<1>4. ASSUME NEW l \in Listeners, Push(l) PROVE TypeOK'
  <2>1. buf[pos[l]] \in Events \cup {Overflow, NoEvent} /\ pos[l] + 1 \in 1..(Slots + 1)
    BY <1>4 DEF Push, TypeOK
  <2>2. Known(buf[pos[l]]) => buf[pos[l]] \in Events
    BY <2>1 DEF Known, Overflow, NoEvent, Event
  <2>3. mEvents' \in Seq(Events)
    BY <1>4, <2>2 DEF Push, TypeOK
  <2> QED
    BY <1>4, <2>1, <2>3 DEF Push, watchVars, consumerVars, TypeOK, Overflowed
<1>5. ASSUME NEW l \in Listeners, Unlock(l) PROVE TypeOK'
  BY <1>5 DEF Unlock, watchVars, consumerVars, TypeOK, Overflowed
<1>6. ASSUME NEW c \in Consumers, Peek(c) PROVE TypeOK'
  BY <1>6 DEF Peek, watchVars, listenerVars, TypeOK, Overflowed
<1>7. ASSUME NEW c \in Consumers, Pop(c) PROVE TypeOK'
  BY <1>7 DEF Pop, watchVars, listenerVars, TypeOK, Overflowed
<1>8. ASSUME NEW c \in Consumers, PopDamages(c) PROVE TypeOK'
  BY <1>8 DEF PopDamages, watchVars, listenerVars, TypeOK, Overflowed
<1> QED
  BY <1>1, <1>2, <1>3, <1>4, <1>5, <1>6, <1>7, <1>8, ReadType, KernelEventType
  DEF Next, ListenerStep, ConsumerStep

\* The queues hold events, the buffer is never read or written beyond its end, and the
\* write lock is held by a thread exactly while it pushes.
THEOREM TypeCorrect == Spec => []TypeOK
BY TypeInit, TypeNext, PTL DEF Spec

----------------------------------------------------------------------------
(* getEvent() and its unlocked pop *)

LEMMA AppendKeepsHead ==
  ASSUME NEW S, NEW s \in Seq(S), s # <<>>, NEW e \in S
  PROVE  Append(s, e) # <<>> /\ Head(Append(s, e)) = Head(s)
OBVIOUS

LEMMA PeekedNext ==
  ASSUME OneConsumer, TypeOK, PeekedIsHead, [Next]_vars
  PROVE  PeekedIsHead'
<1>1. CASE UNCHANGED <<mEvents, cpc, got>>
  BY <1>1 DEF PeekedIsHead
<1>2. ASSUME NEW l \in Listeners, Push(l) PROVE PeekedIsHead'
  <2>1. UNCHANGED <<cpc, got>>
    BY <1>2 DEF Push, consumerVars
  <2>2. CASE Known(buf[pos[l]])
    <3>1. mEvents' = Append(mEvents, buf[pos[l]])
      BY <1>2, <2>2 DEF Push
    <3>2. buf[pos[l]] \in Events /\ mEvents \in Seq(Events)
      <4>1. buf[pos[l]] \in Events \cup {Overflow, NoEvent}
        BY <1>2, EventAssumption DEF Push, TypeOK
      <4> QED
        BY <2>2, <4>1, EventAssumption DEF TypeOK, Known, Overflow, NoEvent, Event
    <3>3. mEvents # <<>> => mEvents' # <<>> /\ Head(mEvents') = Head(mEvents)
      BY <3>1, <3>2, AppendKeepsHead
    <3> QED
      BY <2>1, <3>3 DEF PeekedIsHead
  <2>3. CASE ~Known(buf[pos[l]])
    BY <1>2, <2>1, <2>3 DEF Push, PeekedIsHead
  <2> QED
    BY <2>2, <2>3
<1>3. ASSUME NEW c \in Consumers, Peek(c) PROVE PeekedIsHead'
  <2>1. /\ got' = [got EXCEPT ![c] = Head(mEvents)]
        /\ mEvents # <<>> /\ mEvents' = mEvents
    BY <1>3 DEF Peek
  <2>2. got'[c] = Head(mEvents)
    BY <2>1 DEF TypeOK
  <2> QED
    BY <2>1, <2>2 DEF PeekedIsHead, OneConsumer
<1>4. ASSUME NEW c \in Consumers, Pop(c) PROVE PeekedIsHead'
  <2>1. cpc'[c] = "peek"
    BY <1>4 DEF Pop, TypeOK
  <2> QED
    BY <2>1 DEF PeekedIsHead, OneConsumer
<1>5. ASSUME NEW d \in Wds, KernelEvent(d) \/ WatchStep(d) PROVE PeekedIsHead'
  BY <1>1, <1>5
  DEF KernelEvent, WatchStep, AddWatch, RemoveWatch, ForgetWatch, DropWatch, WatchChanges,
      consumerVars
<1>6. ASSUME NEW l \in Listeners, Read(l) \/ Lock(l) \/ Unlock(l) PROVE PeekedIsHead'
  BY <1>1, <1>6 DEF Read, Lock, Unlock, consumerVars
<1>7. ASSUME NEW c \in Consumers, PopDamages(c) PROVE PeekedIsHead'
  BY <1>1, <1>7 DEF PopDamages
<1>8. CASE UNCHANGED vars
  BY <1>1, <1>8 DEF vars, consumerVars
<1> QED
  BY <1>2, <1>3, <1>4, <1>5, <1>6, <1>7, <1>8 DEF Next, ListenerStep, ConsumerStep

\* However many threads listen, as long as one consumes, getEvent() pops the very event it
\* copied, though it pops under no lock, and never pops an empty list.
THEOREM PopsWhatItPeeked ==
  ASSUME OneConsumer
  PROVE  Spec => []PeekedIsHead
<1>1. Init => PeekedIsHead
  BY DEF Init, PeekedIsHead
<1>2. TypeOK /\ PeekedIsHead /\ [Next]_vars => PeekedIsHead'
  BY PeekedNext
<1> QED
  BY <1>1, <1>2, TypeCorrect, PTL DEF Spec

----------------------------------------------------------------------------
(* The queue is a channel.  The numbers of events rise along the whole line: those *)
(* taken, m_events, what a listener has read and not handled, the kernel's queue.  *)

Below(S, T) == \A e \in S, f \in T : f \in Events => e.id < f.id

Rising(s, lo, hi) == \A i, j \in lo..hi : i < j /\ s[j] \in Events => s[i].id < s[j].id

\* The event has happened, and its watch has been added
Held(e) == e \in Events => e.id <= happened /\ watch[e.wd] # "none"

Ordered ==
  /\ Rising(mEvents, 1, Len(mEvents)) /\ Rising(kq, 1, Len(kq))
  /\ Below(Range(out), Range(mEvents)) /\ Below(Range(out), Range(kq))
  /\ Below(Range(mEvents), Range(kq))
  /\ \A l \in Listeners : lpc[l] # "read" =>
       /\ Rising(buf, pos[l], len[l])
       /\ Below(Range(out), Unhandled(l)) /\ Below(Range(mEvents), Unhandled(l))
       /\ Below(Unhandled(l), Range(kq))
       /\ \A e \in Unhandled(l) : Held(e)
  /\ \A e \in Range(out) \cup Range(mEvents) \cup Range(kq) : Held(e)

OneListener == \A k, l \in Listeners : k = l

LEMMA RangeAppend ==
  ASSUME NEW S, NEW s \in Seq(S), NEW e \in S
  PROVE  Range(Append(s, e)) = Range(s) \cup {e}
<1>1. Append(s, e)[Len(s) + 1] = e /\ \A i \in 1..Len(s) : Append(s, e)[i] = s[i]
  OBVIOUS
<1>2. DOMAIN Append(s, e) = 1..(Len(s) + 1) /\ DOMAIN s = 1..Len(s) /\ Len(s) \in Nat
  OBVIOUS
<1> QED
  BY <1>1, <1>2 DEF Range

LEMMA RangeTail ==
  ASSUME NEW S, NEW s \in Seq(S), s # <<>>
  PROVE  Range(s) = {Head(s)} \cup Range(Tail(s))
<1>1. DOMAIN s = 1..Len(s) /\ DOMAIN Tail(s) = 1..(Len(s) - 1) /\ Len(s) \in Nat \ {0}
  OBVIOUS
<1>2. Head(s) = s[1] /\ \A i \in 1..(Len(s) - 1) : Tail(s)[i] = s[i + 1]
  OBVIOUS
<1>3. ASSUME NEW i \in 1..Len(s), i # 1 PROVE i - 1 \in 1..(Len(s) - 1) /\ s[i] = Tail(s)[i - 1]
  BY <1>1, <1>2, <1>3
<1>4. ASSUME NEW i \in 1..Len(s) PROVE s[i] \in {Head(s)} \cup Range(Tail(s))
  BY <1>1, <1>2, <1>3, <1>4 DEF Range
<1>5. ASSUME NEW i \in 1..(Len(s) - 1) PROVE Tail(s)[i] \in Range(s)
  BY <1>1, <1>2, i + 1 \in 1..Len(s) DEF Range
<1>6. Head(s) \in Range(s)
  BY <1>1, <1>2, 1 \in 1..Len(s) DEF Range
<1> QED
  BY <1>1, <1>4, <1>5, <1>6 DEF Range

LEMMA EventIds ==
  /\ \A e \in Events : e.id \in 1..MaxEvents
  /\ \A e \in Events \cup {Overflow, NoEvent} : e.id \in Nat
  /\ Overflow \notin Events /\ NoEvent \notin Events
BY EventAssumption DEF Events, Overflow, NoEvent, Event

LEMMA RisingAppend ==
  ASSUME NEW s \in Seq(Events \cup {Overflow, NoEvent}), NEW e \in Events \cup {Overflow, NoEvent},
         Rising(s, 1, Len(s)), Below(Range(s), {e})
  PROVE  Rising(Append(s, e), 1, Len(Append(s, e)))
<1>1. /\ Len(Append(s, e)) = Len(s) + 1 /\ Len(s) \in Nat
      /\ Append(s, e)[Len(s) + 1] = e /\ \A i \in 1..Len(s) : Append(s, e)[i] = s[i]
  OBVIOUS
<1>2. \A i \in 1..Len(s) : e \in Events => s[i].id < e.id
  BY DEF Below, Range
<1> QED
  BY <1>1, <1>2 DEF Rising

LEMMA RisingTail ==
  ASSUME NEW s \in Seq(Events), s # <<>>, Rising(s, 1, Len(s))
  PROVE  Rising(Tail(s), 1, Len(Tail(s))) /\ Below({Head(s)}, Range(Tail(s)))
<1>1. /\ Len(s) \in Nat \ {0} /\ Len(Tail(s)) = Len(s) - 1 /\ Head(s) = s[1]
      /\ DOMAIN Tail(s) = 1..(Len(s) - 1)
      /\ \A i \in 1..(Len(s) - 1) : Tail(s)[i] = s[i + 1]
  OBVIOUS
<1>2. \A i \in 1..(Len(s) - 1) : i + 1 \in 1..Len(s) /\ 1 < i + 1
  BY <1>1
<1>3. Rising(Tail(s), 1, Len(Tail(s)))
  BY <1>1, <1>2 DEF Rising
<1>4. 1 \in 1..Len(s)
  BY <1>1
<1>5. Below({Head(s)}, Range(Tail(s)))
  BY <1>1, <1>2, <1>4 DEF Rising, Below, Range
<1> QED
  BY <1>3, <1>5

LEMMA UnhandledType ==
  ASSUME TypeOK, NEW l \in Listeners
  PROVE  Unhandled(l) \subseteq Events \cup {Overflow, NoEvent}
BY EventAssumption DEF TypeOK, Unhandled

LEMMA QueueRanges ==
  ASSUME TypeOK
  PROVE  /\ Range(kq) = {kq[i] : i \in 1..Len(kq)} /\ Range(kq) \subseteq Events \cup {Overflow}
         /\ Range(mEvents) \subseteq Events /\ Range(out) \subseteq Events
BY DEF TypeOK, Range

\* What a read takes from the kernel's queue is what is unhandled after it
LEMMA ReadSplits ==
  ASSUME TypeOK, NEW l \in Listeners, Read(l)
  PROVE  LET n == Lesser(Len(kq), Slots) IN
         /\ n \in Nat /\ n <= Len(kq) /\ n <= Slots /\ Len(kq) \in Nat
         /\ lpc[l] = "read" /\ lpc'[l] = "lock" /\ pos'[l] = 1 /\ len'[l] = n
         /\ \A i \in 1..n : buf'[i] = kq[i]
         /\ Len(kq') = Len(kq) - n /\ \A i \in 1..Len(kq') : kq'[i] = kq[n + i]
         /\ Unhandled(l) = {} /\ Unhandled(l)' = {kq[i] : i \in 1..n}
         /\ Range(kq)' = {kq[i] : i \in (n + 1)..Len(kq)}
<1> DEFINE n == Lesser(Len(kq), Slots)
<1>1. n \in Nat /\ n <= Len(kq) /\ n <= Slots /\ Len(kq) \in Nat
  BY EventAssumption DEF Lesser, TypeOK
<1>2. /\ buf' = [i \in 1..Slots |-> IF i <= n THEN kq[i] ELSE buf[i]]
      /\ kq' = SubSeq(kq, n + 1, Len(kq))
      /\ lpc[l] = "read" /\ lpc'[l] = "lock" /\ pos'[l] = 1 /\ len'[l] = n
  BY DEF Read, TypeOK
<1> HIDE DEF n
<1>3. \A i \in 1..n : buf'[i] = kq[i]
  BY <1>1, <1>2, EventAssumption
<1>4. Len(kq') = Len(kq) - n /\ DOMAIN kq' = 1..Len(kq') /\ \A i \in 1..Len(kq') : kq'[i] = kq[n + i]
  BY <1>1, <1>2 DEF TypeOK
<1>5. Unhandled(l) = {} /\ Unhandled(l)' = {kq[i] : i \in 1..n}
  BY <1>1, <1>2, <1>3 DEF Unhandled
<1>6. Range(kq') = {kq[i] : i \in (n + 1)..Len(kq)}
  <2>1. \A i \in 1..Len(kq') : n + i \in (n + 1)..Len(kq)
    BY <1>1, <1>4
  <2>2. \A i \in (n + 1)..Len(kq) : i - n \in 1..Len(kq') /\ kq[i] = kq'[i - n]
    BY <1>1, <1>4
  <2>3. Range(kq') = {kq'[i] : i \in 1..Len(kq')}
    BY <1>4 DEF Range
  <2>4. \A i \in 1..Len(kq') : kq'[i] \in {kq[j] : j \in (n + 1)..Len(kq)}
    BY <1>4, <2>1
  <2>5. \A i \in (n + 1)..Len(kq) : kq[i] \in {kq'[j] : j \in 1..Len(kq')}
    BY <2>2
  <2> QED
    BY <2>3, <2>4, <2>5
<1> QED
  BY <1>1, <1>2, <1>3, <1>4, <1>5, <1>6 DEF n

\* A turn of the loop handles the first event that is unhandled
LEMMA PushSplits ==
  ASSUME TypeOK, NEW l \in Listeners, Push(l)
  PROVE  /\ buf[pos[l]] \in Unhandled(l) /\ lpc[l] = "push" /\ lpc' = lpc
         /\ Unhandled(l) = {buf[pos[l]]} \cup Unhandled(l)'
         /\ Known(buf[pos[l]]) => buf[pos[l]] \in Events
<1>1. /\ lpc[l] = "push" /\ lpc' = lpc /\ len' = len /\ buf' = buf
      /\ pos[l] \in Nat /\ len[l] \in Nat /\ pos[l] <= len[l] /\ pos'[l] = pos[l] + 1
  BY EventAssumption DEF Push, TypeOK
<1>2. Unhandled(l) = {buf[i] : i \in pos[l]..len[l]} /\ Unhandled(l)' = {buf[i] : i \in (pos[l] + 1)..len[l]}
  BY <1>1 DEF Unhandled
<1>3. pos[l] \in pos[l]..len[l] /\ \A i \in pos[l]..len[l] : i = pos[l] \/ i \in (pos[l] + 1)..len[l]
  BY <1>1
<1>4. buf[pos[l]] \in Unhandled(l)
  BY <1>2, <1>3
<1>5. \A i \in (pos[l] + 1)..len[l] : i \in pos[l]..len[l]
  BY <1>1
<1>6. Unhandled(l) = {buf[pos[l]]} \cup Unhandled(l)'
  BY <1>2, <1>3, <1>5
<1>7. Known(buf[pos[l]]) => buf[pos[l]] \in Events
  BY <1>4, UnhandledType, EventAssumption DEF Known, Overflow, NoEvent, Event
<1> QED
  BY <1>1, <1>4, <1>6, <1>7

\* A pop takes the first event of m_events and hands on that very event
LEMMA PopSplits ==
  ASSUME TypeOK, PeekedIsHead, NEW c \in Consumers, Pop(c)
  PROVE  /\ got[c] = Head(mEvents) /\ got[c] \in Events
         /\ Range(mEvents) = {got[c]} \cup Range(mEvents') /\ Range(out') = Range(out) \cup {got[c]}
<1>1. cpc[c] = "pop" /\ mEvents # <<>> /\ mEvents' = Tail(mEvents) /\ out' = Append(out, got[c])
  BY DEF Pop
<1>2. got[c] = Head(mEvents) /\ got[c] \in Events /\ mEvents \in Seq(Events) /\ out \in Seq(Events)
  BY <1>1 DEF PeekedIsHead, TypeOK
<1> QED
  BY <1>1, <1>2, RangeTail, RangeAppend

LEMMA OrderedRead ==
  ASSUME OneListener, TypeOK, Ordered, NEW l \in Listeners, Read(l)
  PROVE  Ordered'
<1> DEFINE n == Lesser(Len(kq), Slots)
<1>1. /\ n \in Nat /\ n <= Len(kq) /\ n <= Slots /\ Len(kq) \in Nat
      /\ lpc[l] = "read" /\ lpc'[l] = "lock" /\ pos'[l] = 1 /\ len'[l] = n
      /\ \A i \in 1..n : buf'[i] = kq[i]
      /\ Len(kq') = Len(kq) - n /\ \A i \in 1..Len(kq') : kq'[i] = kq[n + i]
      /\ Unhandled(l)' = {kq[i] : i \in 1..n}
      /\ Range(kq)' = {kq[i] : i \in (n + 1)..Len(kq)}
      /\ Range(kq) = {kq[i] : i \in 1..Len(kq)}
  BY ReadSplits, QueueRanges
<1>2. UNCHANGED <<watch, happened, out, mEvents>>
  BY DEF Read, consumerVars
<1> HIDE DEF n
<1>3. Rising(kq, 1, Len(kq)) /\ Rising(kq', 1, Len(kq'))
  <2>1. \A i \in 1..Len(kq') : n + i \in 1..Len(kq)
    BY <1>1
  <2>2. Rising(kq, 1, Len(kq))
    BY DEF Ordered
  <2>3. ASSUME NEW i \in 1..Len(kq'), NEW j \in 1..Len(kq'), i < j, kq'[j] \in Events
        PROVE  kq'[i].id < kq'[j].id
    <3>1. n + i < n + j /\ n + i \in 1..Len(kq) /\ n + j \in 1..Len(kq)
      BY <1>1, <2>1, <2>3
    <3>2. kq'[i] = kq[n + i] /\ kq'[j] = kq[n + j]
      BY <1>1
    <3> QED
      BY <2>2, <2>3, <3>1, <3>2 DEF Rising
  <2> QED
    BY <2>2, <2>3 DEF Rising
<1>4. Rising(buf', pos'[l], len'[l])
  BY <1>1, <1>3 DEF Rising
<1>5. Unhandled(l)' \subseteq Range(kq) /\ Range(kq)' \subseteq Range(kq)
  BY <1>1
<1>6. Below(Unhandled(l)', Range(kq)')
  <2>1. ASSUME NEW i \in 1..n, NEW j \in (n + 1)..Len(kq), kq[j] \in Events PROVE kq[i].id < kq[j].id
    <3>1. i \in 1..Len(kq) /\ j \in 1..Len(kq) /\ i < j
      BY <1>1
    <3> QED
      BY <1>3, <2>1, <3>1 DEF Rising
  <2> QED
    BY <1>1, <2>1 DEF Below
<1>7. \A k \in Listeners : k = l
  BY DEF OneListener
<1>8. /\ Below(Range(out), Range(kq)') /\ Below(Range(mEvents), Range(kq)')
      /\ Below(Range(out), Unhandled(l)') /\ Below(Range(mEvents), Unhandled(l)')
  BY <1>5 DEF Ordered, Below
<1>9. \A e : Held(e)' <=> Held(e)
  BY <1>2 DEF Held
<1>10. \A e \in Unhandled(l)' \cup Range(kq)' : Held(e)'
  BY <1>5, <1>9 DEF Ordered
<1> QED
  BY <1>2, <1>3, <1>4, <1>6, <1>7, <1>8, <1>9, <1>10 DEF Ordered

\* A step of the kernel: nothing moves but what enters its queue
LEMMA OrderedKeeps ==
  ASSUME Ordered, UNCHANGED <<buf, lpc, len, pos, mEvents, out>>,
         Rising(kq', 1, Len(kq')),
         Below(Range(out), Range(kq')), Below(Range(mEvents), Range(kq')),
         \A l \in Listeners : lpc[l] # "read" => Below(Unhandled(l), Range(kq')),
         \A l \in Listeners : Unhandled(l)' = Unhandled(l),
         \A x : Held(x) => Held(x)',
         \A x \in Range(kq') : Held(x)'
  PROVE  Ordered'
<1>1. Range(kq)' = Range(kq') /\ Range(out)' = Range(out) /\ Range(mEvents)' = Range(mEvents)
  OBVIOUS
<1>2. \A l \in Listeners : lpc'[l] # "read" =>
       /\ Rising(buf', pos'[l], len'[l])
       /\ Below(Range(out'), Unhandled(l)') /\ Below(Range(mEvents'), Unhandled(l)')
       /\ Below(Unhandled(l)', Range(kq'))
       /\ \A e \in Unhandled(l)' : Held(e)'
  BY DEF Ordered
<1> QED
  BY <1>1, <1>2 DEF Ordered

LEMMA OrderedKernelEvent ==
  ASSUME TypeOK, Ordered, NEW d \in Wds, KernelEvent(d)
  PROVE  Ordered'
<1>1. PICK e \in Events : e = Event(happened + 1, d) /\ e.id = happened + 1 /\ e.wd = d
  <2>1. happened + 1 \in 1..MaxEvents
    BY EventAssumption DEF KernelEvent, TypeOK
  <2> QED
    BY <2>1, EventTypes DEF Event
<1>2. /\ happened' = happened + 1 /\ watch[d] # "none"
      /\ UNCHANGED <<watch, buf, lpc, len, pos, mEvents, out>>
  BY DEF KernelEvent, listenerVars, consumerVars
<1>3. \A x : Held(x) => Held(x)'
  <2>1. happened \in Nat
    BY EventAssumption DEF TypeOK
  <2>2. \A x \in Events : x.id \in Nat
    BY EventIds
  <2> QED
    BY <1>2, <2>1, <2>2 DEF Held
<1>4. Held(e)'
  BY <1>1, <1>2 DEF Held
<1>5. \A x \in Events \cup {Overflow, NoEvent} : Held(x) => x.id < e.id
  <2>1. happened \in Nat
    BY EventAssumption DEF TypeOK
  <2>2. Overflow.id = 0 /\ NoEvent.id = 0 /\ \A x \in Events : x.id \in Nat
    BY EventIds DEF Overflow, NoEvent, Event
  <2> QED
    BY <1>1, <2>1, <2>2 DEF Held
<1>6. CASE kq' = Append(kq, e)
  <2>1. Below(Range(out), {e}) /\ Below(Range(mEvents), {e}) /\ Below(Range(kq), {e})
    BY <1>5, QueueRanges DEF Ordered, Below
  <2>2. \A l \in Listeners : lpc[l] # "read" => Below(Unhandled(l), {e})
    BY <1>5, UnhandledType DEF Ordered, Below
  <2>3. kq \in Seq(Events \cup {Overflow, NoEvent})
    BY DEF TypeOK
  <2>4. Range(kq') = Range(kq) \cup {e} /\ Rising(kq', 1, Len(kq'))
    BY <1>1, <1>6, <2>1, <2>3, RangeAppend, RisingAppend DEF Ordered
  <2>5. \A l \in Listeners : Unhandled(l)' = Unhandled(l)
    BY <1>2 DEF Unhandled
  <2>6. Below(Range(out), Range(kq')) /\ Below(Range(mEvents), Range(kq'))
    BY <2>1, <2>4 DEF Below, Ordered
  <2>7. \A l \in Listeners : lpc[l] # "read" => Below(Unhandled(l), Range(kq'))
    BY <2>2, <2>4 DEF Below, Ordered
  <2>8. \A x \in Range(out) \cup Range(mEvents) \cup Range(kq') : Held(x)'
    BY <1>3, <1>4, <2>4 DEF Ordered
  <2> QED
    BY <1>2, <1>3, <2>4, <2>5, <2>6, <2>7, <2>8, OrderedKeeps
<1>7. CASE kq' = Append(kq, Overflow)
  <2>1. kq \in Seq(Events \cup {Overflow, NoEvent})
    BY DEF TypeOK
  <2>2. \A S : Below(S, {Overflow})
    BY EventIds DEF Below
  <2>3. Range(kq') = Range(kq) \cup {Overflow} /\ Rising(kq', 1, Len(kq'))
    <3>1. Rising(kq, 1, Len(kq)) /\ Below(Range(kq), {Overflow})
      BY <2>2 DEF Ordered
    <3>2. Range(kq') = Range(kq) \cup {Overflow}
      BY <1>7, <2>1, RangeAppend
    <3> QED
      BY <1>7, <2>1, <3>1, <3>2, RisingAppend
  <2>4. \A l \in Listeners : Unhandled(l)' = Unhandled(l)
    BY <1>2 DEF Unhandled
  <2>5. Held(Overflow)'
    BY EventIds DEF Held
  <2>6. Below(Range(out), Range(kq')) /\ Below(Range(mEvents), Range(kq'))
    BY <2>2, <2>3 DEF Below, Ordered
  <2>7. \A l \in Listeners : lpc[l] # "read" => Below(Unhandled(l), Range(kq'))
    BY <2>2, <2>3 DEF Below, Ordered
  <2>8. \A x \in Range(out) \cup Range(mEvents) \cup Range(kq') : Held(x)'
    BY <1>3, <2>3, <2>5 DEF Ordered
  <2> QED
    BY <1>2, <1>3, <2>3, <2>4, <2>6, <2>7, <2>8, OrderedKeeps
<1>8. CASE kq' = kq
  <2>1. \A l \in Listeners : Unhandled(l)' = Unhandled(l)
    BY <1>2 DEF Unhandled
  <2> QED
    BY <1>2, <1>3, <1>8, <2>1 DEF Ordered
<1> QED
  BY <1>1, <1>6, <1>7, <1>8 DEF KernelEvent

LEMMA OrderedPush ==
  ASSUME OneListener, TypeOK, Ordered, NEW l \in Listeners, Push(l)
  PROVE  Ordered'
<1> DEFINE e == buf[pos[l]]
<1>1. UNCHANGED <<watch, happened, kq, buf, lpc, len, out>> /\ pos'[l] = pos[l] + 1
  BY DEF Push, watchVars, consumerVars, TypeOK
<1>2. /\ e \in Unhandled(l) /\ lpc[l] = "push" /\ Unhandled(l) = {e} \cup Unhandled(l)'
      /\ Known(e) => e \in Events
  BY PushSplits
<1>3. pos[l] \in Nat /\ len[l] \in Nat /\ pos[l] <= len[l]
  BY EventAssumption DEF Push, TypeOK
<1>4. /\ Rising(buf, pos[l], len[l])
      /\ Below(Range(out), Unhandled(l)) /\ Below(Range(mEvents), Unhandled(l))
      /\ Below(Unhandled(l), Range(kq)) /\ \A x \in Unhandled(l) : Held(x)
  BY <1>2 DEF Ordered
<1>5. Rising(buf, pos[l] + 1, len[l]) /\ Below({e}, Unhandled(l)')
  <2>1. \A i \in (pos[l] + 1)..len[l] : i \in pos[l]..len[l] /\ pos[l] < i
    BY <1>3
  <2>2. pos[l] \in pos[l]..len[l]
    BY <1>3
  <2>3. Unhandled(l)' = {buf[i] : i \in (pos[l] + 1)..len[l]}
    BY <1>1, <1>2 DEF Unhandled
  <2> QED
    BY <1>4, <2>1, <2>2, <2>3 DEF Rising, Below
<1> HIDE DEF e
<1>6. \A k \in Listeners : k = l
  BY DEF OneListener
<1>7. \A x : Held(x)' <=> Held(x)
  BY <1>1 DEF Held
<1>8. /\ Below(Range(out), Unhandled(l)') /\ Below(Range(mEvents), Unhandled(l)')
      /\ Below(Unhandled(l)', Range(kq)) /\ Below({e}, Range(kq))
      /\ Below(Range(out), {e}) /\ Below(Range(mEvents), {e})
      /\ Held(e) /\ \A x \in Unhandled(l)' : Held(x)
  BY <1>2, <1>4 DEF Below
<1>9. CASE Known(e)
  <2>1. mEvents' = Append(mEvents, e) /\ e \in Events /\ mEvents \in Seq(Events)
    BY <1>2, <1>9 DEF Push, e, TypeOK
  <2>2. mEvents \in Seq(Events \cup {Overflow, NoEvent}) /\ Rising(mEvents, 1, Len(mEvents))
    BY <2>1 DEF Ordered
  <2>3. Range(mEvents') = Range(mEvents) \cup {e} /\ Rising(mEvents', 1, Len(mEvents'))
    BY <1>8, <2>1, <2>2, RangeAppend, RisingAppend
  <2>4. /\ Below(Range(out), Range(mEvents')) /\ Below(Range(mEvents'), Range(kq))
        /\ Below(Range(mEvents'), Unhandled(l)')
    BY <1>5, <1>8, <2>3 DEF Below, Ordered
  <2>5. \A x \in Range(mEvents') : Held(x)
    BY <1>8, <2>3 DEF Ordered
  <2> QED
    BY <1>1, <1>5, <1>6, <1>7, <1>8, <2>3, <2>4, <2>5 DEF Ordered
<1>10. CASE ~Known(e)
  <2>1. mEvents' = mEvents
    BY <1>10 DEF Push, e
  <2> QED
    BY <1>1, <1>5, <1>6, <1>7, <1>8, <2>1 DEF Ordered
<1> QED
  BY <1>9, <1>10

LEMMA OrderedPop ==
  ASSUME TypeOK, PeekedIsHead, Ordered, NEW c \in Consumers, Pop(c)
  PROVE  Ordered'
<1>1. UNCHANGED <<watch, happened, kq, buf, lpc, len, pos>> /\ mEvents # <<>> /\ mEvents' = Tail(mEvents)
  BY DEF Pop, watchVars, listenerVars
<1>2. /\ got[c] = Head(mEvents) /\ got[c] \in Events
      /\ Range(mEvents) = {got[c]} \cup Range(mEvents') /\ Range(out') = Range(out) \cup {got[c]}
  BY PopSplits
<1>3. Rising(mEvents', 1, Len(mEvents')) /\ Below({got[c]}, Range(mEvents'))
  BY <1>1, <1>2, RisingTail DEF Ordered, TypeOK
<1>4. \A l \in Listeners : Unhandled(l)' = Unhandled(l)
  BY <1>1 DEF Unhandled
<1>5. \A x : Held(x)' <=> Held(x)
  BY <1>1 DEF Held
<1>6. /\ Below(Range(out'), Range(mEvents')) /\ Below(Range(out'), Range(kq))
      /\ Below(Range(mEvents'), Range(kq))
  BY <1>2, <1>3 DEF Ordered, Below
<1>7. \A l \in Listeners : lpc[l] # "read" =>
        Below(Range(out'), Unhandled(l)) /\ Below(Range(mEvents'), Unhandled(l))
  BY <1>2 DEF Ordered, Below
<1>8. \A x \in Range(out') \cup Range(mEvents') \cup Range(kq) : Held(x)
  BY <1>2 DEF Ordered
<1> QED
  BY <1>1, <1>3, <1>4, <1>5, <1>6, <1>7, <1>8 DEF Ordered

LEMMA OrderedNext ==
  ASSUME OneListener, TypeOK, PeekedIsHead, Ordered, [Next]_vars
  PROVE  Ordered'
<1>1. CASE UNCHANGED <<watch, happened, kq, buf, lpc, len, pos, mEvents, out>>
  <2>1. \A l \in Listeners : Unhandled(l)' = Unhandled(l)
    BY <1>1 DEF Unhandled
  <2>2. \A x : Held(x)' <=> Held(x)
    BY <1>1 DEF Held
  <2> QED
    BY <1>1, <2>1, <2>2 DEF Ordered
<1>2. ASSUME NEW d \in Wds, WatchStep(d) PROVE Ordered'
  <2>1. UNCHANGED <<happened, kq, buf, lpc, len, pos, mEvents, out>>
    BY <1>2 DEF WatchStep, AddWatch, RemoveWatch, ForgetWatch, DropWatch, WatchChanges,
                listenerVars, consumerVars
  <2>2. \A k \in Wds : watch'[k] = "none" => watch[k] = "none"
    BY <1>2 DEF WatchStep, AddWatch, RemoveWatch, ForgetWatch, DropWatch, WatchChanges, TypeOK
  <2>3. \A x \in Events : x.wd \in Wds
    BY DEF Events
  <2>4. \A x : Held(x) => Held(x)'
    BY <2>1, <2>2, <2>3 DEF Held
  <2>5. \A l \in Listeners : Unhandled(l)' = Unhandled(l)
    BY <2>1 DEF Unhandled
  <2> QED
    BY <2>1, <2>4, <2>5 DEF Ordered
<1>3. ASSUME NEW l \in Listeners, Lock(l) \/ Unlock(l) PROVE Ordered'
  <2>1. UNCHANGED <<watch, happened, kq, buf, len, pos, mEvents, out>>
    BY <1>3 DEF Lock, Unlock, watchVars, consumerVars
  <2>2. lpc[l] # "read" /\ \A k \in Listeners : k = l
    BY <1>3 DEF Lock, Unlock, OneListener
  <2>3. lpc'[l] # "read" => Unhandled(l)' = Unhandled(l)
    BY <2>1, <2>2 DEF Unhandled
  <2>4. \A x : Held(x)' <=> Held(x)
    BY <2>1 DEF Held
  <2> QED
    BY <2>1, <2>2, <2>3, <2>4 DEF Ordered
<1>4. ASSUME NEW c \in Consumers, Peek(c) \/ PopDamages(c) PROVE Ordered'
  BY <1>1, <1>4 DEF Peek, PopDamages, watchVars, listenerVars
<1>5. CASE UNCHANGED vars
  BY <1>1, <1>5 DEF vars, watchVars, listenerVars, consumerVars
<1> QED
  BY <1>2, <1>3, <1>4, <1>5, OrderedRead, OrderedKernelEvent, OrderedPush, OrderedPop
  DEF Next, ListenerStep, ConsumerStep

LEMMA OrderedInit == Init => Ordered
<1> SUFFICES ASSUME Init PROVE Ordered
  OBVIOUS
<1>1. mEvents = <<>> /\ kq = <<>> /\ out = <<>> /\ \A l \in Listeners : lpc[l] = "read"
  BY DEF Init
<1>2. Range(<<>>) = {} /\ \A s : Rising(s, 1, 0) /\ Len(<<>>) = 0
  BY DEF Range, Rising
<1> QED
  BY <1>1, <1>2 DEF Ordered, Below

----------------------------------------------------------------------------
(* The mapping: each step of the queue is a step of the channel, or none of it *)

Chan == Range(mEvents) \cup OnTheWay

LEMMA ChanIds ==
  ASSUME TypeOK, Ordered
  PROVE  /\ OnTheWay \subseteq Events /\ Chan \subseteq Events
         /\ \A e \in Range(out) : \A f \in Chan : e.id < f.id
         /\ \A e \in Range(mEvents) : \A f \in OnTheWay : e.id < f.id
         /\ \A e \in Chan \cup Range(out) : e.id <= happened
<1>1. OnTheWay \subseteq Events
  <2>1. \A e \in OnTheWay : e \in Events \cup {Overflow, NoEvent} /\ e.wd \in Wds
    BY UnhandledType, QueueRanges DEF OnTheWay
  <2>2. Overflow.wd \notin Wds /\ NoEvent.wd \notin Wds
    BY EventAssumption DEF Overflow, NoEvent, Event
  <2> QED
    BY <2>1, <2>2
<1>2. \A f \in OnTheWay : f \in Range(kq) \/ \E l \in Listeners : lpc[l] # "read" /\ f \in Unhandled(l)
  BY DEF OnTheWay, Unhandled
<1>3. \A e \in Range(out) : \A f \in Chan : e.id < f.id
  BY <1>1, <1>2, QueueRanges DEF Chan, Ordered, Below
<1>4. \A e \in Range(mEvents) : \A f \in OnTheWay : e.id < f.id
  BY <1>1, <1>2 DEF Ordered, Below
<1>5. \A e \in Chan \cup Range(out) : e.id <= happened
  BY <1>1, <1>2, QueueRanges DEF Chan, Ordered, Held
<1> QED
  BY <1>1, <1>3, <1>4, <1>5, QueueRanges DEF Chan

LEMMA StutterStep ==
  ASSUME UNCHANGED <<watch, out>>, Chan' = Chan
  PROVE  [Channel!Next]_(Channel!chanVars)
BY DEF Channel!chanVars, Chan

LEMMA KernelEventRefines ==
  ASSUME TypeOK, Ordered, NEW d \in Wds, KernelEvent(d)
  PROVE  [Channel!Next]_(Channel!chanVars)
<1>1. /\ watch[d] \in {"kernel", "watched"} /\ happened \in Nat
      /\ UNCHANGED <<watch, out, mEvents, buf, lpc, len, pos>> /\ kq \in Seq(Events \cup {Overflow})
  BY EventAssumption DEF KernelEvent, listenerVars, consumerVars, TypeOK
<1>2. \A l \in Listeners : Unhandled(l)' = Unhandled(l)
  BY <1>1 DEF Unhandled
<1>3. ASSUME NEW e \in Events, e = Event(happened + 1, d), kq' = Append(kq, e)
      PROVE  Channel!Next
  <2>1. e.id = happened + 1 /\ e.wd = d
    BY <1>3 DEF Event
  <2>2. Range(kq') = Range(kq) \cup {e}
    BY <1>1, <1>3, RangeAppend
  <2>3. Chan' = Chan \cup {e}
    BY <1>1, <1>2, <2>1, <2>2 DEF Chan, OnTheWay
  <2>4. \A f \in Chan \cup Range(out) : f.id < e.id
    <3>1. \A f \in Chan \cup Range(out) : f.id \in Nat
      BY ChanIds, QueueRanges, EventIds
    <3> QED
      BY <1>1, <2>1, <3>1, ChanIds
  <2>5. \A i \in 1..Len(out) : out[i] \in Range(out)
    BY DEF Range, TypeOK
  <2>6. Channel!Post(e)
    BY <1>1, <2>1, <2>3, <2>4, <2>5 DEF Channel!Post, Chan
  <2> QED
    BY <2>6 DEF Channel!Next, Channel!Events, Events
<1>4. CASE kq' = Append(kq, Overflow)
  <2>1. Range(kq') = Range(kq) \cup {Overflow} /\ Overflow.wd \notin Wds
    BY <1>1, <1>4, RangeAppend, EventAssumption DEF Overflow, Event
  <2>2. Chan' = Chan
    BY <1>1, <1>2, <2>1 DEF Chan, OnTheWay
  <2> QED
    BY <1>1, <2>2, StutterStep
<1>5. CASE kq' = kq
  <2>1. Chan' = Chan
    BY <1>1, <1>2, <1>5 DEF Chan, OnTheWay
  <2> QED
    BY <1>1, <2>1, StutterStep
<1>6. Event(happened + 1, d) \in Events
  <2>1. happened + 1 \in 1..MaxEvents
    BY EventAssumption DEF KernelEvent, TypeOK
  <2> QED
    BY <2>1, EventTypes
<1> QED
  BY <1>3, <1>4, <1>5, <1>6 DEF KernelEvent

LEMMA ReadRefines ==
  ASSUME OneListener, TypeOK, NEW l \in Listeners, Read(l)
  PROVE  [Channel!Next]_(Channel!chanVars)
<1>1. Unhandled(l) \cup Range(kq) = Unhandled(l)' \cup Range(kq)'
  <2> DEFINE n == Lesser(Len(kq), Slots)
  <2>1. /\ n \in Nat /\ n <= Len(kq) /\ Len(kq) \in Nat /\ Unhandled(l) = {}
        /\ Unhandled(l)' = {kq[i] : i \in 1..n}
        /\ Range(kq)' = {kq[i] : i \in (n + 1)..Len(kq)}
        /\ Range(kq) = {kq[i] : i \in 1..Len(kq)}
    BY ReadSplits, QueueRanges
  <2> HIDE DEF n
  <2>2. \A i \in 1..Len(kq) : i \in 1..n \/ i \in (n + 1)..Len(kq)
    BY <2>1
  <2>3. /\ \A i \in 1..n : i \in 1..Len(kq)
        /\ \A i \in (n + 1)..Len(kq) : i \in 1..Len(kq)
    BY <2>1
  <2> QED
    BY <2>1, <2>2, <2>3
<1>2. UNION {Unhandled(k) : k \in Listeners} = Unhandled(l)
  BY DEF OneListener
<1>3. UNION {Unhandled(k)' : k \in Listeners} = Unhandled(l)'
  BY DEF OneListener
<1>4. UNCHANGED <<watch, mEvents, out>>
  BY DEF Read, consumerVars
<1>5. Chan' = Chan
  BY <1>1, <1>2, <1>3, <1>4 DEF Chan, OnTheWay
<1> QED
  BY <1>4, <1>5, StutterStep

LEMMA PushRefines ==
  ASSUME OneListener, TypeOK, Ordered, NEW l \in Listeners, Push(l)
  PROVE  [Channel!Next]_(Channel!chanVars)
<1>1. PICK e \in Events \cup {Overflow, NoEvent} : e = buf[pos[l]] /\ e \in Unhandled(l)
  BY PushSplits, UnhandledType
<1>2. /\ Unhandled(l) = {e} \cup Unhandled(l)' /\ lpc[l] = "push"
      /\ Known(e) => e \in Events
  BY <1>1, PushSplits
<1>3. UNION {Unhandled(k) : k \in Listeners} = Unhandled(l)
  BY DEF OneListener
<1>4. UNION {Unhandled(k)' : k \in Listeners} = Unhandled(l)'
  BY DEF OneListener
<1>5. UNCHANGED <<watch, kq, out>>
  BY DEF Push, watchVars, consumerVars
<1>6. CASE Known(e)
  <2>1. mEvents' = Append(mEvents, e) /\ Range(mEvents') = Range(mEvents) \cup {e}
    BY <1>1, <1>2, <1>6, RangeAppend DEF Push, TypeOK
  <2>2. Chan' = Chan
    BY <1>2, <1>3, <1>4, <1>5, <1>6, <2>1 DEF Chan, OnTheWay, Known
  <2> QED
    BY <1>5, <2>2, StutterStep
<1>7. CASE ~Known(e) /\ e.wd \in Wds /\ watch[e.wd] = "kernel"
  <2>1. mEvents' = mEvents
    BY <1>1, <1>7 DEF Push
  <2>2. e \in OnTheWay /\ e \in Events
    BY <1>1, <1>3, <1>7, ChanIds DEF OnTheWay
  <2>3. e \notin Range(mEvents)
    <3>1. \A f \in Range(mEvents) : f.id < e.id /\ f.id \in Nat
      BY <2>2, ChanIds, QueueRanges, EventIds
    <3> QED
      BY <3>1, <2>2, EventIds
  <2>4. e \notin Range(kq) /\ e \notin Unhandled(l)'
    <3>1. Below(Unhandled(l), Range(kq)) /\ Rising(buf, pos[l], len[l]) /\ e.id \in Nat
      BY <1>2, <2>2, EventIds DEF Ordered
    <3>2. e \notin Range(kq)
      BY <1>1, <2>2, <3>1 DEF Below
    <3>3. /\ pos[l] \in Nat /\ len[l] \in Nat /\ pos[l] <= len[l]
          /\ Unhandled(l)' = {buf[i] : i \in (pos[l] + 1)..len[l]}
      BY <1>2, EventAssumption DEF Push, TypeOK, Unhandled
    <3>4. \A i \in (pos[l] + 1)..len[l] : i \in pos[l]..len[l] /\ pos[l] < i /\ pos[l] \in pos[l]..len[l]
      BY <3>3
    <3> QED
      BY <1>1, <2>2, <3>1, <3>2, <3>3, <3>4 DEF Rising
  <2>5. Chan' = Chan \ {e}
    BY <1>2, <1>3, <1>4, <1>5, <2>1, <2>3, <2>4 DEF Chan, OnTheWay
  <2>6. Channel!Lose(e)
    BY <1>5, <1>7, <2>5 DEF Channel!Lose, Chan
  <2> QED
    BY <2>2, <2>6 DEF Channel!Next, Chan
<1>8. CASE ~Known(e) /\ ~(e.wd \in Wds /\ watch[e.wd] = "kernel")
  <2>1. mEvents' = mEvents
    BY <1>1, <1>8 DEF Push
  <2>2. ~(e.wd \in Wds /\ watch[e.wd] \in {"kernel", "watched"})
    BY <1>8 DEF Known
  <2>3. Chan' = Chan
    BY <1>2, <1>3, <1>4, <1>5, <2>1, <2>2 DEF Chan, OnTheWay
  <2> QED
    BY <1>5, <2>3, StutterStep
<1> QED
  BY <1>6, <1>7, <1>8

LEMMA PopRefines ==
  ASSUME TypeOK, PeekedIsHead, Ordered, NEW c \in Consumers, Pop(c)
  PROVE  [Channel!Next]_(Channel!chanVars)
<1>1. PICK e \in Events : e = got[c]
  BY PopSplits
<1>2. /\ e = Head(mEvents) /\ Range(mEvents) = {e} \cup Range(mEvents') /\ mEvents # <<>>
      /\ out' = Append(out, e) /\ mEvents' = Tail(mEvents)
      /\ UNCHANGED <<watch, kq, buf, lpc, len, pos>>
  BY <1>1, PopSplits DEF Pop, watchVars, listenerVars
<1>3. OnTheWay' = OnTheWay
  BY <1>2 DEF OnTheWay, Unhandled
<1>4. Below({e}, Range(mEvents'))
  BY <1>2, RisingTail DEF Ordered, TypeOK
<1>5. \A f \in Range(mEvents') : e.id < f.id
  BY <1>2, <1>4, QueueRanges DEF Below
<1>6. \A f \in OnTheWay : e.id < f.id
  BY <1>2, ChanIds
<1>7. e.id \in Nat /\ \A f \in Chan : f.id \in Nat
  BY ChanIds, EventIds
<1>8. Chan' = Chan \ {e}
  BY <1>2, <1>3, <1>5, <1>6, <1>7 DEF Chan
<1>9. \A f \in Chan : e.id <= f.id
  BY <1>2, <1>5, <1>6, <1>7 DEF Chan
<1>10. Channel!Take(e)
  BY <1>2, <1>8, <1>9 DEF Channel!Take, Chan
<1> QED
  BY <1>2, <1>10 DEF Channel!Next, Chan

LEMMA WatchRefines ==
  ASSUME TypeOK, Ordered, NEW d \in Wds, WatchStep(d)
  PROVE  [Channel!Next]_(Channel!chanVars)
<1>1. UNCHANGED <<kq, buf, lpc, len, pos, mEvents, out>>
  BY DEF WatchStep, AddWatch, RemoveWatch, ForgetWatch, DropWatch, WatchChanges,
         listenerVars, consumerVars
<1>2. \A l \in Listeners : Unhandled(l)' = Unhandled(l)
  BY <1>1 DEF Unhandled
<1>3. CASE \/ WatchChanges(d, "none", "kernel") \/ WatchChanges(d, "kernel", "watched")
           \/ WatchChanges(d, "watched", "kernel")
  <2>1. watch[d] = "none" => \A f \in OnTheWay' : f.wd # d
    <3>1. \A f \in OnTheWay' : f \in Events
      <4>1. \A f \in OnTheWay' : f \in Events \cup {Overflow, NoEvent} /\ f.wd \in Wds
        BY <1>1, <1>2, UnhandledType, QueueRanges DEF OnTheWay
      <4>2. Overflow.wd \notin Wds /\ NoEvent.wd \notin Wds
        BY EventAssumption DEF Overflow, NoEvent, Event
      <4> QED
        BY <4>1, <4>2
    <3>2. \A f \in OnTheWay' : f \in Range(kq) \/ \E l \in Listeners : lpc[l] # "read" /\ f \in Unhandled(l)
      BY <1>1, <1>2 DEF OnTheWay, Unhandled
    <3> QED
      BY <3>1, <3>2 DEF Ordered, Held
  <2>2. /\ \A k \in Wds : k # d => watch'[k] = watch[k]
        /\ watch'[d] \in {"kernel", "watched"} /\ watch[d] \in {"none", "kernel", "watched"}
    BY <1>3 DEF WatchChanges, TypeOK
  <2>3. OnTheWay' = OnTheWay
    BY <1>1, <1>2, <2>1, <2>2 DEF OnTheWay
  <2>4. Channel!Change(d)
    BY <1>1, <1>3, <2>3 DEF Channel!Change, WatchChanges
  <2> QED
    BY <2>4 DEF Channel!Next
<1>4. CASE WatchChanges(d, "watched", "removed") \/ WatchChanges(d, "kernel", "removed")
  <2>1. watch[d] \in {"kernel", "watched"} /\ watch' = [watch EXCEPT ![d] = "removed"]
    BY <1>4 DEF WatchChanges
  <2>2. OnTheWay' = {f \in OnTheWay : f.wd # d}
    BY <1>1, <1>2, <2>1 DEF OnTheWay, TypeOK
  <2>3. PICK n \in 0..MaxEvents :
          /\ \A f \in Range(mEvents) : f.id <= n
          /\ \A f \in OnTheWay : n < f.id
    <3>1. CASE mEvents = <<>>
      <4>1. Range(mEvents) = {} /\ \A f \in OnTheWay : 0 < f.id
        BY <3>1, ChanIds, EventIds DEF Range
      <4> QED
        BY <4>1, EventAssumption
    <3>2. CASE mEvents # <<>>
      <4>0. Len(mEvents) \in Nat
        BY DEF TypeOK
      <4>1. Len(mEvents) \in 1..Len(mEvents) /\ DOMAIN mEvents = 1..Len(mEvents)
        BY <3>2 DEF TypeOK
      <4> DEFINE last == mEvents[Len(mEvents)]
      <4>2. last \in Range(mEvents) /\ last \in Events /\ last.id \in 0..MaxEvents
        BY <4>1, QueueRanges, EventIds, EventAssumption DEF Range
      <4>3. \A f \in OnTheWay : last.id < f.id
        BY <4>2, ChanIds
      <4>4. ASSUME NEW i \in 1..Len(mEvents) PROVE mEvents[i].id <= last.id
        <5>1. CASE i = Len(mEvents)
          BY <4>2, <5>1
        <5>2. CASE i # Len(mEvents)
          <6>0. i < Len(mEvents)
            BY <4>0, <5>2
          <6>1. mEvents[i].id < last.id
            BY <4>1, <4>2, <6>0 DEF Ordered, Rising
          <6>2. mEvents[i].id \in Nat
            BY <4>1, QueueRanges, EventIds DEF Range
          <6> QED
            BY <4>2, <6>1, <6>2
        <5> QED
          BY <5>1, <5>2
      <4> QED
        BY <4>1, <4>2, <4>3, <4>4 DEF Range
    <3> QED
      BY <3>1, <3>2
  <2>4. \A f \in OnTheWay : ~(f.id <= n)
    BY <2>3, ChanIds, EventIds
  <2>5. Chan' = {f \in Chan : f.wd # d \/ f.id <= n}
    BY <1>1, <2>2, <2>3, <2>4 DEF Chan
  <2>6. Channel!RemoveWatch(d, n)
    BY <1>1, <2>1, <2>5 DEF Channel!RemoveWatch, Chan
  <2> QED
    BY <2>6 DEF Channel!Next
<1> QED
  BY <1>3, <1>4 DEF WatchStep, AddWatch, RemoveWatch, ForgetWatch, DropWatch

LEMMA NextRefines ==
  ASSUME OneListener, TypeOK, PeekedIsHead, Ordered, [Next]_vars
  PROVE  [Channel!Next]_(Channel!chanVars)
<1>1. CASE UNCHANGED <<watch, kq, buf, lpc, len, pos, mEvents, out>>
  <2>1. Chan' = Chan
    BY <1>1 DEF Chan, OnTheWay, Unhandled
  <2> QED
    BY <1>1, <2>1, StutterStep
<1>2. ASSUME NEW l \in Listeners, Lock(l) \/ Unlock(l) PROVE [Channel!Next]_(Channel!chanVars)
  <2>1. UNCHANGED <<watch, kq, buf, len, pos, mEvents, out>>
    BY <1>2 DEF Lock, Unlock, watchVars, consumerVars
  <2>2. Unhandled(l)' = Unhandled(l)
    <3>1. CASE Lock(l)
      BY <2>1, <3>1 DEF Lock, Unhandled, TypeOK
    <3>2. CASE Unlock(l)
      <4>1. pos[l]..len[l] = {}
        BY <3>2, EventAssumption DEF Unlock, TypeOK
      <4> QED
        BY <2>1, <3>2, <4>1 DEF Unlock, Unhandled, TypeOK
    <3> QED
      BY <1>2, <3>1, <3>2
  <2>3. /\ UNION {Unhandled(k) : k \in Listeners} = Unhandled(l)
        /\ UNION {Unhandled(k)' : k \in Listeners} = Unhandled(l)'
    BY DEF OneListener
  <2>4. Chan' = Chan
    BY <2>1, <2>2, <2>3 DEF Chan, OnTheWay
  <2> QED
    BY <2>1, <2>4, StutterStep
<1>3. ASSUME NEW c \in Consumers, Peek(c) \/ PopDamages(c) PROVE [Channel!Next]_(Channel!chanVars)
  BY <1>1, <1>3 DEF Peek, PopDamages, watchVars, listenerVars
<1>4. CASE UNCHANGED vars
  BY <1>1, <1>4 DEF vars, watchVars, listenerVars, consumerVars
<1> QED
  BY <1>2, <1>3, <1>4, ReadRefines, KernelEventRefines, PushRefines, PopRefines, WatchRefines
  DEF Next, ListenerStep, ConsumerStep

LEMMA InitRefines == Init => Channel!Init
<1> SUFFICES ASSUME Init PROVE Channel!Init
  OBVIOUS
<1>1. mEvents = <<>> /\ kq = <<>> /\ out = <<>> /\ \A l \in Listeners : Unhandled(l) = {}
  BY DEF Init, Unhandled
<1>2. Range(mEvents) \cup OnTheWay = {}
  BY <1>1 DEF Range, OnTheWay
<1> QED
  BY <1>1, <1>2 DEF Init, Channel!Init

\* With one thread that listens and one that consumes, the queue of ANotify is a first-in
\* first-out channel, for every buffer size and every limit of the kernel's queue: getEvent()
\* returns the accepted events, each once, in the order they happened, but for those of
\* watches that are being added or removed.
THEOREM QueueIsChannel ==
  ASSUME OneListener, OneConsumer
  PROVE  Spec => ImplementsChannel
<1>1. Init => Ordered
  BY OrderedInit
<1>2. TypeOK /\ PeekedIsHead /\ Ordered /\ [Next]_vars => Ordered'
  BY OrderedNext
<1>3. TypeOK /\ PeekedIsHead /\ Ordered /\ [Next]_vars => [Channel!Next]_(Channel!chanVars)
  BY NextRefines
<1>4. Spec => []PeekedIsHead
  BY PopsWhatItPeeked
<1> QED
  BY <1>1, <1>2, <1>3, <1>4, TypeCorrect, InitRefines, PTL DEF Spec, ImplementsChannel, Channel!Spec
================================================================================
