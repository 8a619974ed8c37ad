--------------------------- MODULE EventSenderProofs ---------------------------
(* Theorems about the loop that takes events from the queue and the threads that send   *)
(* their documents, for every number of events.                                         *)
EXTENDS EventSender, SequenceTheorems, TLAPS

-----------------------------------------------------------------------------
(* The inductive invariant *)

\* The event that run() is busy with
Cur == Last(out).id

\* The numbers of the events rise along those taken and those in the channel
QueueOrdered ==
  /\ chan \subseteq Queue!Events /\ out \in Seq(Queue!Events)
  /\ \A i, j \in DOMAIN out : i < j => out[i].id < out[j].id
  /\ \A i \in DOMAIN out, e \in chan : out[i].id < e.id
  /\ \A e, f \in chan : e.id = f.id => e = f

\* The document of each event
Doc(i) == IF i \in told THEN i ELSE Empty

\* What a turn of the loop holds: the document of its event, which has no thread yet, and
\* then, until the block ends, the pair
Turn ==
  /\ pc = "start" => out # <<>> /\ thread[Cur] = "none" /\ xmlStr = Doc(Cur)
  /\ pair.live => /\ pc \in {"start", "block"} /\ out # <<>>
                  /\ pc = "block" => pair.doc = Doc(Cur)

\* Threads are those of events taken, and every document but that of the turn has one,
\* unless it could not be created
Threads ==
  /\ \A i \in Ids : thread[i] # "none" => i \in Taken
  /\ \A i \in told \ threadless : thread[i] = "none" => pc = "start" /\ i = Cur

\* A thread in time has its own document, and what was sent is what the threads that ended
\* had, each once
Sent ==
  /\ \A i \in Ids \ late : thread[i] \in {"wait", "send", "end"} => xml[i] = Doc(i)
  /\ \A j, k \in DOMAIN received : received[j].from = received[k].from => j = k
  /\ \A s \in Arrived, l \in lost : s.from # l.from
  /\ \A s \in Arrived \cup lost : thread[s.from] = "end" /\ s.doc = xml[s.from]
  /\ \A i \in Ids : thread[i] = "end" /\ xml[i] # Empty => SentBy(i) \in Arrived \cup lost

\* What is sent is lost only when the base has left
LostLate == lost # {} => base # "open"

SenderInv ==
  /\ TypeOK /\ QueueOrdered /\ Turn /\ Threads /\ Sent /\ LostLate
  /\ received \in Seq(Documents)

USE SenderAssumption

LEMMA IdFacts ==
  /\ \A e \in Queue!Events : e.id \in Ids
  /\ Empty \notin Ids /\ Junk \notin Ids /\ Free \notin Ids /\ Empty # Junk
  /\ \A i \in Ids : i \in Nat
BY DEF Queue!Events, Ids, Empty, Junk, Free

LEMMA ArrivedAppend ==
  ASSUME received \in Seq(Documents), NEW e \in Documents, received' = Append(received, e)
  PROVE  Arrived' = Arrived \cup {e}
<1>1. Append(received, e)[Len(received) + 1] = e
      /\ \A i \in 1..Len(received) : Append(received, e)[i] = received[i]
  OBVIOUS
<1>2. /\ DOMAIN Append(received, e) = 1..(Len(received) + 1)
      /\ DOMAIN received = 1..Len(received) /\ Len(received) \in Nat
  OBVIOUS
<1> QED
  BY <1>1, <1>2 DEF Arrived

\* A step that leaves them alone
LEMMA SentKept ==
  ASSUME Sent, UNCHANGED <<told, late, thread, xml, received, lost>>
  PROVE  Sent'
BY DEF Sent, Doc, Arrived, SentBy

LEMMA TakenFacts ==
  ASSUME QueueOrdered
  PROVE  /\ Taken \subseteq Ids
         /\ out # <<>> => Cur \in Taken
<1>1. \A k \in DOMAIN out : out[k] \in Queue!Events
  BY DEF QueueOrdered
<1>2. out # <<>> => Len(out) \in DOMAIN out
  BY DEF QueueOrdered
<1> QED
  BY <1>1, <1>2, IdFacts DEF Taken, Cur, Last

LEMMA InvInit == Init => SenderInv
<1> SUFFICES ASSUME Init PROVE SenderInv
  OBVIOUS
<1>1. /\ chan = {} /\ out = <<>> /\ proc = "up" /\ running = TRUE /\ pc = "test" /\ xmlStr = Empty
      /\ pair = [live |-> FALSE, doc |-> Empty] /\ thread = [i \in Ids |-> "none"]
      /\ xml = [i \in Ids |-> Empty] /\ lock = Free /\ base = "open" /\ received = <<>>
      /\ told = {} /\ threadless = {} /\ lost = {} /\ late = {}
  BY DEF Init
<1>2. DOMAIN <<>> = {} /\ Arrived = {} /\ \A S : <<>> \in Seq(S)
  BY <1>1 DEF Arrived
<1>3. \A i \in Ids : thread[i] = "none" /\ lock # i
  BY <1>1, IdFacts
<1>4. TypeOK
  BY <1>1, <1>2, <1>3 DEF TypeOK
<1>5. QueueOrdered /\ Turn /\ Threads /\ LostLate
  BY <1>1, <1>2, <1>3 DEF QueueOrdered, Turn, Threads, LostLate
<1>6. Sent
  BY <1>1, <1>2, <1>3 DEF Sent
<1> QED
  BY <1>1, <1>2, <1>4, <1>5, <1>6 DEF SenderInv

-----------------------------------------------------------------------------
(* The steps *)

\* Steps that leave the threads and what was taken alone
LEMMA QueueStepKeeps ==
  ASSUME SenderInv, QueueStep
  PROVE  SenderInv'
<1>1. UNCHANGED <<out, proc, running, loopVars, threadVars, baseVars, late>>
  BY DEF QueueStep, Queue!Post, Queue!Lose
<1> DEFINE Q == /\ chan' \subseteq Queue!Events /\ \A i \in DOMAIN out, e \in chan' : out[i].id < e.id
                /\ \A e, f \in chan' : e.id = f.id => e = f
<1>2. Q
  <2>1. /\ chan \subseteq Queue!Events /\ DOMAIN out = 1..Len(out)
        /\ \A i \in DOMAIN out, e \in chan : out[i].id < e.id
        /\ \A e, f \in chan : e.id = f.id => e = f
    BY DEF SenderInv, QueueOrdered
  <2>2. ASSUME NEW e \in Queue!Events, Queue!Post(e) PROVE Q
    <3>1. \A f \in Queue!Events : f.id \in Nat
      BY IdFacts
    <3> QED
      BY <2>1, <2>2, <3>1 DEF Queue!Post
  <2>3. ASSUME NEW e \in chan, Queue!Lose(e) PROVE Q
    BY <2>1, <2>3 DEF Queue!Lose
  <2> QED
    BY <2>2, <2>3 DEF QueueStep
<1>3. Sent'
  BY <1>1, SentKept DEF SenderInv, loopVars, threadVars, baseVars
<1> QED
  BY <1>1, <1>2, <1>3
  DEF loopVars, threadVars, baseVars, SenderInv, TypeOK, QueueOrdered, Turn, Threads, LostLate,
      Taken, Cur, Doc, Arrived

LEMMA TakeEvent ==
  ASSUME SenderInv, GetEvent, UNCHANGED <<proc, running>>
  PROVE  SenderInv'
<1>1. PICK e \in chan : Queue!Take(e) /\ Make(e.id)
  BY DEF GetEvent
<1>2. /\ out' = Append(out, e) /\ chan' = chan \ {e} /\ \A f \in chan : e.id <= f.id
      /\ pc = "get" /\ pc' = "start" /\ pair' = [live |-> TRUE, doc |-> Empty]
      /\ \/ xmlStr' = Empty /\ told' = told
         \/ xmlStr' = e.id /\ told' = told \cup {e.id}
      /\ UNCHANGED <<proc, running, threadless, threadVars, baseVars, late>>
  BY <1>1 DEF GetEvent, Queue!Take, Make
<1>3. /\ chan \subseteq Queue!Events /\ out \in Seq(Queue!Events) /\ e \in Queue!Events
      /\ \A i, j \in DOMAIN out : i < j => out[i].id < out[j].id
      /\ \A i \in DOMAIN out, f \in chan : out[i].id < f.id
  BY DEF SenderInv, QueueOrdered
<1>4. /\ Len(out) \in Nat /\ DOMAIN out = 1..Len(out) /\ DOMAIN out' = 1..(Len(out) + 1)
      /\ Len(out') = Len(out) + 1 /\ out'[Len(out) + 1] = e /\ \A i \in 1..Len(out) : out'[i] = out[i]
      /\ out' \in Seq(Queue!Events) /\ out' # <<>>
  BY <1>2, <1>3
<1>5. Cur' = e.id /\ e.id \in Ids /\ Taken' = Taken \cup {e.id}
  <2>1. Cur' = e.id /\ e.id \in Ids
    BY <1>3, <1>4, IdFacts DEF Cur, Last
  <2>2. \A i \in 1..Len(out) : out'[i].id = out[i].id /\ i \in 1..(Len(out) + 1)
    BY <1>4
  <2>3. \A i \in 1..(Len(out) + 1) : i = Len(out) + 1 \/ i \in 1..Len(out)
    BY <1>4
  <2>4. Taken = {out[k].id : k \in 1..Len(out)} /\ Taken' = {out'[k].id : k \in 1..(Len(out) + 1)}
    BY <1>4 DEF Taken
  <2>5. Len(out) + 1 \in 1..(Len(out) + 1)
    BY <1>4
  <2>6. \A k \in 1..(Len(out) + 1) : out'[k].id \in Taken \cup {e.id}
    BY <1>4, <2>2, <2>3, <2>4
  <2> QED
    BY <1>4, <2>1, <2>2, <2>4, <2>5, <2>6
<1>6. e.id \notin Taken
  BY <1>3, IdFacts DEF Taken
<1>7. /\ thread[e.id] = "none" /\ e.id \notin told
      /\ told \subseteq Taken /\ Taken \subseteq Ids
  BY <1>5, <1>6, TakenFacts DEF SenderInv, Threads, TypeOK
<1>8. QueueOrdered'
  <2>1. \A i, j \in DOMAIN out' : i < j => out'[i].id < out'[j].id
    <3>1. ASSUME NEW i \in 1..(Len(out) + 1), NEW j \in 1..(Len(out) + 1), i < j
          PROVE  out'[i].id < out'[j].id
      <4>1. i \in 1..Len(out) /\ (j \in 1..Len(out) \/ j = Len(out) + 1)
        BY <1>4, <3>1
      <4> QED
        BY <1>3, <1>4, <3>1, <4>1
    <3> QED
      BY <1>4, <3>1
  <2>2. \A i \in DOMAIN out', f \in chan' : out'[i].id < f.id
    <3>1. ASSUME NEW i \in 1..(Len(out) + 1), NEW f \in chan' PROVE out'[i].id < f.id
      <4>1. i \in 1..Len(out) \/ i = Len(out) + 1
        BY <1>4
      <4>2. f \in chan /\ f # e /\ f \in Queue!Events
        BY <1>2, <1>3
      <4>3. e.id # f.id
        BY <4>2 DEF SenderInv, QueueOrdered
      <4> QED
        BY <1>2, <1>3, <1>4, <4>1, <4>2, <4>3, IdFacts
    <3> QED
      BY <1>4, <3>1
  <2> QED
    BY <1>2, <1>3, <1>4, <2>1, <2>2 DEF SenderInv, QueueOrdered
<1>9. Turn'
  BY <1>2, <1>4, <1>5, <1>7 DEF SenderInv, Turn, threadVars, Doc
<1>10. Threads'
  BY <1>2, <1>5, <1>6, <1>7 DEF SenderInv, Threads, threadVars
<1>11. TypeOK'
  <2>1. xmlStr' \in {Empty} \cup Ids /\ pair' \in [live : BOOLEAN, doc : {Empty} \cup Ids]
        /\ told' \subseteq Taken'
    BY <1>2, <1>5, <1>7
  <2> QED
    BY <1>2, <1>5, <2>1 DEF SenderInv, TypeOK, threadVars, baseVars, Arrived
<1>12. Sent'
  <2>1. \A i \in Ids : thread[i] # "none" => Doc(i)' = Doc(i)
    BY <1>2, <1>7 DEF Doc
  <2> QED
    BY <1>2, <2>1 DEF SenderInv, Sent, Arrived, SentBy, threadVars, baseVars
<1> QED
  BY <1>2, <1>8, <1>9, <1>10, <1>11, <1>12 DEF SenderInv, LostLate, baseVars

\* The steps of run() that change nothing but its own place, and the pair
LEMMA TurnStep ==
  ASSUME SenderInv, UNCHANGED <<proc, running>>,
         IsRunning \/ NoEvent \/ EndBlock
  PROVE  SenderInv'
<1>1. /\ UNCHANGED <<queueVars, xmlStr, told, threadless, threadVars, baseVars, late>>
      /\ pc' \in {"test", "get", "end"} /\ pc # "start"
  BY DEF IsRunning, NoEvent, EndBlock
<1>2. pair' \in [live : BOOLEAN, doc : {Empty} \cup Ids] /\ ~pair'.live
  BY DEF SenderInv, TypeOK, Turn, IsRunning, NoEvent, EndBlock
<1>3. Cur' = Cur /\ Taken' = Taken
  BY <1>1 DEF Cur, Taken, queueVars
<1>4. TypeOK'
  BY <1>1, <1>2, <1>3 DEF SenderInv, TypeOK, threadVars, baseVars, Arrived
<1>5. QueueOrdered' /\ LostLate' /\ Sent'
  BY <1>1, SentKept DEF SenderInv, QueueOrdered, LostLate, queueVars, baseVars, threadVars
<1>6. Turn' /\ Threads'
  BY <1>1, <1>2, <1>3 DEF SenderInv, Turn, Threads, queueVars, threadVars
<1> QED
  BY <1>1, <1>4, <1>5, <1>6 DEF SenderInv, baseVars

LEMMA StartThread ==
  ASSUME SenderInv, Start, UNCHANGED <<proc, running>>
  PROVE  SenderInv'
<1>1. /\ pc = "start" /\ pc' = "block" /\ pair' = [pair EXCEPT !.doc = xmlStr]
      /\ \/ thread' = [thread EXCEPT ![Cur] = "new"] /\ threadless' = threadless
         \/ threadless' = threadless \cup {Cur} /\ thread' = thread
      /\ UNCHANGED <<queueVars, xmlStr, told, xml, lock, baseVars, late>>
  BY DEF Start, Cur
<1>2. /\ out # <<>> /\ thread[Cur] = "none" /\ Cur \in Taken /\ Cur \in Ids
      /\ xmlStr = Doc(Cur) /\ told \subseteq Ids
  BY <1>1, TakenFacts DEF SenderInv, Turn, TypeOK
<1>3. Cur' = Cur /\ Taken' = Taken /\ out' = out /\ \A i : Doc(i)' = Doc(i)
  BY <1>1 DEF Cur, Taken, queueVars, Doc
<1>4. /\ thread'[Cur] = "new" \/ (thread' = thread /\ Cur \in threadless')
      /\ \A i \in Ids : i # Cur => thread'[i] = thread[i]
      /\ thread' \in [Ids -> {"none", "new", "wait", "send", "end"}]
      /\ thread'[Cur] \in {"none", "new"}
      /\ threadless' \subseteq Taken /\ threadless \subseteq threadless'
  BY <1>1, <1>2 DEF SenderInv, TypeOK
<1>5. pair'.doc = xmlStr /\ pair' \in [live : BOOLEAN, doc : {Empty} \cup Ids]
  BY <1>1 DEF SenderInv, TypeOK
<1>6. TypeOK'
  <2>1. \A i \in Ids : thread'[i] = "send" <=> lock' = i
    BY <1>1, <1>2, <1>4 DEF SenderInv, TypeOK
  <2> QED
    BY <1>1, <1>2, <1>3, <1>4, <1>5, <2>1 DEF SenderInv, TypeOK, baseVars, Arrived
<1>7. QueueOrdered' /\ LostLate'
  BY <1>1 DEF SenderInv, QueueOrdered, LostLate, queueVars, baseVars
<1>8. Turn'
  BY <1>1, <1>2, <1>3, <1>5 DEF Turn
<1>9. Threads'
  BY <1>1, <1>2, <1>3, <1>4 DEF SenderInv, Threads
<1>10. Sent'
  <2>1. \A i \in Ids : thread'[i] \in {"wait", "send", "end"} <=> thread[i] \in {"wait", "send", "end"}
    BY <1>2, <1>4
  <2>2. \A i \in Ids : thread'[i] = "end" <=> thread[i] = "end"
    BY <1>2, <1>4
  <2>3. Arrived' = Arrived /\ \A s \in Arrived \cup lost : s.from \in Ids
    BY <1>1 DEF Arrived, baseVars, SenderInv, TypeOK, Documents
  <2> QED
    BY <1>1, <1>3, <2>1, <2>2, <2>3 DEF SenderInv, Sent, SentBy, baseVars
<1> QED
  BY <1>1, <1>6, <1>7, <1>8, <1>9, <1>10 DEF SenderInv, baseVars

LEMMA CopyPair ==
  ASSUME SenderInv, NEW i \in Ids, Copy(i), UNCHANGED <<queueVars, running, loopVars>>
  PROVE  SenderInv'
<1>1. /\ thread[i] = "new" /\ late' = IF Own(i) THEN late ELSE late \cup {i}
      /\ UNCHANGED <<queueVars, running, loopVars, lock, baseVars>>
      /\ \/ /\ \E d \in Copied : xml' = [xml EXCEPT ![i] = d]
            /\ thread' = [thread EXCEPT ![i] = "wait"] /\ proc' = proc
         \/ ~pair.live /\ proc' = "broken" /\ UNCHANGED <<xml, thread>>
  BY DEF Copy
<1>2. Cur' = Cur /\ Taken' = Taken /\ out' = out /\ \A k : Doc(k)' = Doc(k)
  BY <1>1 DEF Cur, Taken, queueVars, loopVars, Doc
<1>3. pair.doc \in {Empty} \cup Ids /\ Copied \subseteq {Empty, Junk} \cup Ids
  BY DEF SenderInv, TypeOK, Copied
<1>4. /\ thread' \in [Ids -> {"none", "new", "wait", "send", "end"}]
      /\ xml' \in [Ids -> {Empty, Junk} \cup Ids]
      /\ \A k \in Ids : thread'[k] = thread[k] \/ (k = i /\ thread'[k] = "wait")
      /\ \A k \in Ids : k # i => xml'[k] = xml[k]
  BY <1>1, <1>3 DEF SenderInv, TypeOK
<1>5. TypeOK'
  <2>1. late' \subseteq Taken
    BY <1>1 DEF SenderInv, TypeOK, Threads
  <2>2. \A k \in Ids : thread'[k] = "send" <=> thread[k] = "send"
    BY <1>1, <1>4
  <2> QED
    BY <1>1, <1>2, <1>4, <2>1, <2>2 DEF SenderInv, TypeOK, loopVars, baseVars, Arrived
<1>6. QueueOrdered' /\ LostLate'
  BY <1>1 DEF SenderInv, QueueOrdered, LostLate, queueVars, baseVars
<1>7. Turn'
  <2>1. pc = "start" => thread'[Cur] = "none"
    <3>1. pc = "start" => Cur \in Ids
      BY TakenFacts DEF SenderInv, Turn
    <3> QED
      BY <1>1, <1>4, <3>1 DEF SenderInv, Turn
  <2> QED
    BY <1>1, <1>2, <2>1 DEF SenderInv, Turn, loopVars
<1>8. Threads'
  <2>1. told \subseteq Ids /\ UNCHANGED <<told, threadless, pc>>
    BY <1>1, TakenFacts DEF SenderInv, TypeOK, loopVars
  <2> QED
    BY <1>1, <1>2, <1>4, <2>1 DEF SenderInv, Threads
<1>9. Sent'
  <2>1. i \notin late' => xml'[i] = Doc(i) \/ thread'[i] = "new"
    <3> SUFFICES ASSUME i \notin late' PROVE xml'[i] = Doc(i) \/ thread'[i] = "new"
      OBVIOUS
    <3>1. pair.live /\ Cur = i /\ pc = "block"
      BY <1>1 DEF Own, Cur
    <3>2. pair.doc = Doc(i) /\ Copied = {pair.doc}
      BY <3>1 DEF SenderInv, Turn, Copied
    <3> QED
      BY <1>1, <3>2 DEF SenderInv, TypeOK
  <2>2. \A k \in Ids : thread'[k] = "end" <=> thread[k] = "end"
    BY <1>1, <1>4
  <2>3. /\ Arrived' = Arrived /\ UNCHANGED <<received, lost>>
        /\ \A s \in Arrived \cup lost : s.from \in Ids
    BY <1>1 DEF Arrived, baseVars, SenderInv, TypeOK, Documents
  <2>4. \A k \in Ids : thread'[k] = "end" => k # i /\ xml'[k] = xml[k]
    BY <1>1, <1>4
  <2>5. \A k \in Ids \ late' : thread'[k] \in {"wait", "send", "end"} => xml'[k] = Doc(k)
    <3>1. \A k \in Ids \ late' : k \notin late
      BY <1>1
    <3> QED
      BY <1>4, <2>1, <3>1 DEF SenderInv, Sent
  <2> QED
    BY <1>2, <2>2, <2>3, <2>4, <2>5 DEF SenderInv, Sent, SentBy
<1> QED
  BY <1>1, <1>5, <1>6, <1>7, <1>8, <1>9 DEF SenderInv, baseVars

\* A thread goes from one place to the next, and the rest stays
LEMMA ThreadMoves ==
  ASSUME SenderInv, NEW i \in Ids, NEW place \in {"wait", "send", "end"},
         thread[i] # "none", thread' = [thread EXCEPT ![i] = place],
         UNCHANGED <<queueVars, running, loopVars, base, xml, late>>
  PROVE  /\ thread' \in [Ids -> {"none", "new", "wait", "send", "end"}]
         /\ thread'[i] = place /\ \A k \in Ids : k # i => thread'[k] = thread[k]
         /\ Cur' = Cur /\ Taken' = Taken /\ told' = told /\ told \subseteq Ids
         /\ QueueOrdered' /\ Turn' /\ Threads'
<1>1. /\ thread' \in [Ids -> {"none", "new", "wait", "send", "end"}]
      /\ thread'[i] = place /\ \A k \in Ids : k # i => thread'[k] = thread[k]
  BY DEF SenderInv, TypeOK
<1>2. /\ Cur' = Cur /\ Taken' = Taken /\ told' = told /\ told \subseteq Ids
      /\ \A k : Doc(k)' = Doc(k)
  BY TakenFacts DEF Cur, Taken, Doc, queueVars, loopVars, SenderInv, TypeOK
<1>3. QueueOrdered'
  BY DEF SenderInv, QueueOrdered, queueVars
<1>4. Turn'
  <2>1. pc = "start" => Cur \in Ids /\ thread[Cur] = "none"
    BY TakenFacts DEF SenderInv, Turn
  <2> QED
    BY <1>1, <1>2, <2>1 DEF SenderInv, Turn, queueVars, loopVars
<1>5. Threads'
  BY <1>1, <1>2 DEF SenderInv, Threads, loopVars
<1> QED
  BY <1>1, <1>2, <1>3, <1>4, <1>5

LEMMA LockSocket ==
  ASSUME SenderInv, NEW i \in Ids, Lock(i), UNCHANGED <<queueVars, running, loopVars>>
  PROVE  SenderInv'
<1>1. /\ thread[i] = "wait" /\ lock = Free /\ lock' = i /\ thread' = [thread EXCEPT ![i] = "send"]
      /\ UNCHANGED <<queueVars, running, loopVars, proc, xml, baseVars, late>>
  BY DEF Lock
<1>2. /\ thread' \in [Ids -> {"none", "new", "wait", "send", "end"}]
      /\ thread'[i] = "send" /\ \A k \in Ids : k # i => thread'[k] = thread[k]
      /\ Cur' = Cur /\ Taken' = Taken /\ told' = told /\ told \subseteq Ids
      /\ QueueOrdered' /\ Turn' /\ Threads'
  BY <1>1, ThreadMoves DEF baseVars
<1>3. TypeOK'
  BY <1>1, <1>2, IdFacts DEF SenderInv, TypeOK, loopVars, baseVars, Arrived
<1>4. Sent'
  <2>1. \A s \in Arrived \cup lost : s.from \in Ids /\ s.from # i
    BY <1>1 DEF SenderInv, TypeOK, Documents, Sent
  <2>2. Arrived' = Arrived /\ \A k : Doc(k)' = Doc(k)
    BY <1>1, <1>2 DEF Arrived, baseVars, Doc
  <2> QED
    BY <1>1, <1>2, <2>1, <2>2 DEF SenderInv, Sent, SentBy, baseVars
<1> QED
  BY <1>1, <1>2, <1>3, <1>4 DEF SenderInv, LostLate, baseVars

LEMMA SendDocument ==
  ASSUME SenderInv, NEW i \in Ids, Send(i), UNCHANGED <<queueVars, running, loopVars>>
  PROVE  SenderInv'
<1>1. CASE base = "reset"
  <2>1. proc' = "broken" /\ UNCHANGED <<queueVars, running, loopVars, thread, lock, received, lost, base, xml, late>>
    BY <1>1 DEF Send
  <2>2. Sent'
    BY <2>1, SentKept DEF SenderInv, loopVars
  <2> QED
    BY <2>1, <2>2 DEF SenderInv, TypeOK, QueueOrdered, Turn, Threads, LostLate, Cur, Taken, Doc,
                Arrived, queueVars, loopVars
<1>2. CASE base # "reset"
  <2> DEFINE r == base = "open" /\ xml[i] # Empty
             l == base = "left" /\ xml[i] # Empty
  <2>1. /\ thread[i] = "send" /\ thread' = [thread EXCEPT ![i] = "end"] /\ lock' = Free /\ proc' = proc
        /\ received' = IF r THEN Append(received, SentBy(i)) ELSE received
        /\ lost' = IF l THEN lost \cup {SentBy(i)} ELSE lost
        /\ UNCHANGED <<queueVars, running, loopVars, base, xml, late>>
    BY <1>2 DEF Send
  <2>2. /\ thread' \in [Ids -> {"none", "new", "wait", "send", "end"}]
        /\ thread'[i] = "end" /\ \A k \in Ids : k # i => thread'[k] = thread[k]
        /\ Cur' = Cur /\ Taken' = Taken /\ told' = told /\ told \subseteq Ids
        /\ QueueOrdered' /\ Turn' /\ Threads'
    BY <2>1, ThreadMoves
  <2>3. /\ xml[i] \in {Empty, Junk} \cup Ids /\ lock = i
        /\ SentBy(i).from = i /\ SentBy(i).doc = xml[i]
        /\ xml[i] # Empty => SentBy(i) \in Documents
    BY <2>1 DEF SenderInv, TypeOK, SentBy, Documents
  <2>4. /\ received' \in Seq(Documents)
        /\ Arrived' = Arrived \cup (IF r THEN {SentBy(i)} ELSE {})
    <3>1. received \in Seq(Documents)
      BY DEF SenderInv
    <3>2. CASE r
      BY <2>1, <2>3, <3>1, <3>2, ArrivedAppend
    <3>3. CASE ~r
      BY <2>1, <3>1, <3>3 DEF Arrived
    <3> QED
      BY <3>2, <3>3
  <2>5. TypeOK'
    <3>1. \A k \in Ids : thread'[k] = "send" <=> lock' = k
      BY <2>1, <2>2, <2>3, IdFacts DEF SenderInv, TypeOK
    <3>2. Arrived' \cup lost' \subseteq Documents
      BY <2>1, <2>3, <2>4 DEF SenderInv, TypeOK
    <3> QED
      BY <2>1, <2>2, <3>1, <3>2 DEF SenderInv, TypeOK, loopVars
  <2>6. LostLate'
    BY <1>2, <2>1 DEF SenderInv, TypeOK, LostLate
  <2>7. Sent'
    <3>1. /\ Sent /\ \A k : Doc(k)' = Doc(k)
          /\ \A k \in Ids : SentBy(k)' = SentBy(k)
      BY <2>1 DEF SenderInv, Doc, loopVars, SentBy
    <3>2. \A s \in Arrived \cup lost : s.from \in Ids /\ s.from # i
      BY <2>1 DEF SenderInv, TypeOK, Documents, Sent
    <3>3. ~(r /\ l) /\ (xml[i] # Empty => r \/ l)
      BY <1>2 DEF SenderInv, TypeOK
    <3>4. \A j, k \in DOMAIN received' : received'[j].from = received'[k].from => j = k
      <4>1. CASE ~r
        BY <2>1, <3>1, <4>1 DEF Sent
      <4>2. CASE r
        <5>1. received \in Seq(Documents)
          BY DEF SenderInv
        <5>2. /\ DOMAIN received = 1..Len(received) /\ Len(received) \in Nat
              /\ DOMAIN received' = 1..(Len(received) + 1)
              /\ received'[Len(received) + 1] = SentBy(i)
              /\ \A k \in 1..Len(received) : received'[k] = received[k]
          BY <2>1, <2>3, <4>2, <5>1
        <5>3. \A k \in 1..Len(received) : received[k].from # i
          BY <3>2, <5>2 DEF Arrived
        <5>4. \A k \in 1..(Len(received) + 1) : k = Len(received) + 1 \/ k \in 1..Len(received)
          BY <5>2
        <5> QED
          BY <2>3, <3>1, <5>2, <5>3, <5>4 DEF Sent
      <4> QED
        BY <4>1, <4>2
    <3>5. \A s \in Arrived', m \in lost' : s.from # m.from
      BY <2>1, <2>3, <2>4, <3>1, <3>2, <3>3 DEF Sent
    <3>6. \A s \in Arrived' \cup lost' : thread'[s.from] = "end" /\ s.doc = xml'[s.from]
      <4>1. Arrived' \cup lost' \subseteq Arrived \cup lost \cup {SentBy(i)}
        BY <2>1, <2>4
      <4>2. \A s \in Arrived \cup lost : thread'[s.from] = "end" /\ s.doc = xml'[s.from]
        BY <2>1, <2>2, <3>1, <3>2 DEF Sent
      <4> QED
        BY <2>1, <2>2, <2>3, <4>1, <4>2
    <3>7. \A k \in Ids : thread'[k] = "end" /\ xml'[k] # Empty => SentBy(k)' \in Arrived' \cup lost'
      <4>1. xml[i] # Empty => SentBy(i) \in Arrived' \cup lost'
        BY <2>1, <2>4, <3>3
      <4>2. Arrived \subseteq Arrived' /\ lost \subseteq lost'
        BY <2>1, <2>4
      <4> QED
        BY <2>1, <2>2, <3>1, <4>1, <4>2 DEF Sent
    <3>8. \A k \in Ids \ late' : thread'[k] \in {"wait", "send", "end"} => xml'[k] = Doc(k)'
      BY <2>1, <2>2, <3>1 DEF Sent
    <3> QED
      BY <3>4, <3>5, <3>6, <3>7, <3>8 DEF Sent
  <2> QED
    BY <2>2, <2>4, <2>5, <2>6, <2>7 DEF SenderInv
<1> QED
  BY <1>1, <1>2

LEMMA InvNext == SenderInv /\ [Next]_vars => SenderInv'
<1> SUFFICES ASSUME SenderInv, [Next]_vars PROVE SenderInv'
  OBVIOUS
<1>1. CASE RunStep
  BY <1>1, TakeEvent, TurnStep, StartThread DEF RunStep
<1>2. ASSUME NEW i \in Ids, ThreadStep(i) PROVE SenderInv'
  BY <1>2, CopyPair, LockSocket, SendDocument DEF ThreadStep
<1>3. CASE QueueStep
  BY <1>3, QueueStepKeeps
<1>4. CASE \/ Stop \/ Exit \/ BaseLeaves \/ BaseResets \/ UNCHANGED vars
  <2>1. UNCHANGED <<queueVars, loopVars, threadVars, received, lost, late>>
    BY <1>4 DEF Stop, Exit, BaseLeaves, BaseResets, vars, baseVars
  <2>2. /\ proc' \in {"up", "ended", "broken"} /\ running' \in BOOLEAN
        /\ base' \in {"open", "left", "reset"} /\ (base # "open" => base' # "open")
    BY <1>4 DEF Stop, Exit, BaseLeaves, BaseResets, vars, baseVars, SenderInv, TypeOK
  <2>3. Sent'
    BY <2>1, SentKept DEF SenderInv, loopVars, threadVars
  <2> QED
    BY <2>1, <2>2, <2>3 DEF SenderInv, TypeOK, QueueOrdered, Turn, Threads, LostLate, Cur, Taken,
                      Doc, Arrived, queueVars, loopVars, threadVars
<1> QED
  BY <1>1, <1>2, <1>3, <1>4 DEF Next

\* The inductive invariant of the sender: who holds the pair and the lock, and where each
\* document is.
THEOREM SenderInvariant == Spec => []SenderInv
BY InvInit, InvNext, PTL DEF Spec

\* A thread holds xmlSockLock exactly while it sends, so that the octets of two documents are
\* never mixed.
THEOREM TypeCorrect == Spec => []TypeOK
<1>1. SenderInv => TypeOK
  BY DEF SenderInv
<1> QED
  BY <1>1, SenderInvariant, PTL

\* However the loop, the threads of the events and the index base follow one another: no
\* thread sends twice, and one that copied its pair before the block of run() ended sends the
\* document of its own event, whatever late threads send besides.
THEOREM NoneRepeatedHolds == Spec => []NoneRepeated
<1>1. SenderInv => NoneRepeated
  <2> SUFFICES ASSUME SenderInv, NEW s \in Arrived \cup lost, s.from \in InTime
               PROVE  s.doc = s.from /\ s.doc \in told
    BY DEF SenderInv, Sent, NoneRepeated
  <2>1. s.from \in Ids \ late /\ s.doc # Empty
    BY IdFacts DEF SenderInv, TypeOK, Documents, InTime
  <2>2. thread[s.from] = "end" /\ s.doc = xml[s.from]
    BY DEF SenderInv, Sent
  <2> QED
    BY <2>1, <2>2 DEF SenderInv, Sent, Doc
<1> QED
  BY <1>1, SenderInvariant, PTL

\* No document goes astray inside the daemon but those of late threads and of threads that
\* could not be created: it is with run(), with its thread, received, or sent to a base that
\* had left.
THEOREM ConservedHolds == Spec => []Conserved
<1>1. SenderInv => Conserved
  <2> SUFFICES ASSUME SenderInv, NEW i \in told, i \in InTime
               PROVE  \/ OwnDoc(i) \in Arrived
                      \/ OwnDoc(i) \in lost /\ base # "open"
                      \/ i \in Pending /\ (thread[i] # "new" => xml[i] = i)
                      \/ pc = "start" /\ xmlStr = i
    BY DEF Conserved
  <2>1. /\ i \in Ids /\ thread[i] \in {"none", "new", "wait", "send", "end"}
        /\ i \notin late /\ i \notin threadless /\ i # Empty /\ Doc(i) = i
    BY IdFacts DEF SenderInv, TypeOK, InTime, Doc
  <2>2. CASE thread[i] = "none"
    BY <2>1, <2>2 DEF SenderInv, Threads, Turn
  <2>3. CASE thread[i] \in {"new", "wait", "send"}
    BY <2>1, <2>3 DEF Pending, SenderInv, Sent
  <2>4. CASE thread[i] = "end"
    <3>1. xml[i] = i
      BY <2>1, <2>4 DEF SenderInv, Sent
    <3>2. SentBy(i) = OwnDoc(i)
      BY <3>1 DEF SentBy, OwnDoc
    <3> QED
      BY <2>1, <2>4, <3>1, <3>2 DEF SenderInv, Sent, LostLate
  <2> QED
    BY <2>1, <2>2, <2>3, <2>4
<1> QED
  BY <1>1, SenderInvariant, PTL
================================================================================
