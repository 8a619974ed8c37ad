---------------------------- MODULE PropsFileProofs ----------------------------
(***************************************************************************)
(* Proofs about the properties file: whose names it holds, and             *)
(* one daemon at a time when starts and kills do not overlap.              *)
(***************************************************************************)
EXTENDS PropsFile, TLAPS

\* Writing into one file leaves a sequence of files.
LEMMA WriteKeepsFiles ==
  ASSUME NEW S, NEW files \in Seq(Seq(S)), NEW f \in 1 .. Len(files), NEW d \in S
  PROVE  /\ [files EXCEPT ![f] = Append(@, d)] \in Seq(Seq(S))
         /\ Len([files EXCEPT ![f] = Append(@, d)]) = Len(files)
  <1>1. files[f] \in Seq(S) /\ Append(files[f], d) \in Seq(S)
    OBVIOUS
  <1> QED
    BY <1>1

\* The first name in a file stays the first.
LEMMA FirstStays ==
  ASSUME NEW S, NEW s \in Seq(S), NEW x \in S
  PROVE  Append(s, x) # <<>> /\ Append(s, x)[1] = IF s = <<>> THEN x ELSE s[1]
  <1>1. Len(Append(s, x)) = Len(s) + 1 /\ Append(s, x)[Len(s) + 1] = x
    OBVIOUS
  <1>2. CASE s = <<>>
    BY <1>1, <1>2
  <1>3. CASE s # <<>>
    <2>1. 1 \in 1 .. Len(s)
      BY <1>3
    <2> QED
      BY <1>1, <1>3, <2>1
  <1> QED
    BY <1>2, <1>3

\* A new file comes after the others.
LEMMA NewFile ==
  ASSUME NEW S, NEW files \in Seq(Seq(S))
  PROVE  /\ Append(files, <<>>) \in Seq(Seq(S))
         /\ Len(Append(files, <<>>)) = Len(files) + 1
         /\ Append(files, <<>>)[Len(files) + 1] = <<>>
         /\ \A f \in 1 .. Len(files) : Append(files, <<>>)[f] = files[f]
  <1>1. <<>> \in Seq(S)
    OBVIOUS
  <1> QED
    BY <1>1

\* open(): the file exists afterwards, and the old files stay.
LEMMA OpenKeepsType ==
  ASSUME TypeOK, OpenPropsFile
  PROVE  /\ content' \in Seq(Seq(Daemons))
         /\ Len(content) <= Len(content')
         /\ visible' \in 1 .. Len(content')
         /\ Opened = visible'
         /\ written' \in [Daemons -> Ports \cup {0}]
         /\ \A f \in 1 .. Len(content) : content'[f] = content[f]
  <1>1. CASE visible = 0
    BY <1>1, NewFile DEF TypeOK, OpenPropsFile, Opened
  <1>2. CASE visible # 0
    BY <1>2 DEF TypeOK, OpenPropsFile, Opened
  <1> QED
    BY <1>1, <1>2

\* Whoever looks into a file has opened one.
FileHeld ==
  /\ \A d \in Daemons : dpc[d] \in Alive => file[d] # 0
  /\ \A c \in Controls : cpc[c] = "read" => cfile[c] # 0

\* A daemon takes a port that no other one has
LEMMA PortsApartKept ==
  ASSUME TypeOK, NEW d \in Daemons, DaemonStep(d)
  PROVE  PortsApart'
  <1>1. PICK p \in Ports \cup {0} :
          /\ port' = [port EXCEPT ![d] = p]
          /\ p = 0 \/ p = port[d] \/ \A e \in Daemons : port[e] # p
    <2>1. CASE UNCHANGED port
      <3>1. port[d] \in Ports \cup {0} /\ port' = [port EXCEPT ![d] = port[d]]
        BY <2>1 DEF TypeOK
      <3> QED
        BY <3>1
    <2>2. CASE Listen(d)
      BY <2>2 DEF Listen
    <2>3. CASE port' = [port EXCEPT ![d] = 0]
      BY <2>3
    <2> QED
      BY <2>1, <2>2, <2>3 DEF DaemonStep, Begin, Check, GivesUp, WriteProps, Connect, ConnectFails,
                              NotifyFails, Kill, KillAgain, Exit, Crash
  <1> QED
    BY <1>1 DEF TypeOK, PortsApart

LEMMA BeginKeepsType ==
  ASSUME TypeOK, FileHeld, NEW d \in Daemons, Begin(d)
  PROVE  TypeOK' /\ FileHeld'
  <1>1. file' \in [Daemons -> 0 .. Len(content')] /\ file'[d] # 0
    BY OpenKeepsType DEF TypeOK, Begin
  <1>2. cfile' \in [Controls -> 0 .. Len(content')]
    BY OpenKeepsType DEF TypeOK, Begin, Moves, clients
  <1>3. PortsApart'
    BY PortsApartKept DEF DaemonStep
  <1>4. TypeOK'
    BY <1>1, <1>2, <1>3, OpenKeepsType
    DEF TypeOK, Begin, Moves, Overlaps, clients, Starting, Alive, Left
  <1>5. FileHeld'
    BY <1>1 DEF TypeOK, FileHeld, Begin, Moves, clients
  <1> QED
    BY <1>4, <1>5

LEMMA WritePropsKeepsType ==
  ASSUME TypeOK, FileHeld, NEW d \in Daemons, WriteProps(d)
  PROVE  /\ TypeOK' /\ FileHeld'
         /\ file[d] \in 1 .. Len(content)
         /\ Len(content') = Len(content)
         /\ content' = [content EXCEPT ![file[d]] = Append(content[file[d]], d)]
  <1>1. file[d] \in 1 .. Len(content) /\ port[d] \in Ports \cup {0}
    BY DEF TypeOK, FileHeld, WriteProps, Moves, Alive, Starting, Left
  <1>2. content' \in Seq(Seq(Daemons)) /\ Len(content') = Len(content)
    BY <1>1, WriteKeepsFiles DEF TypeOK, WriteProps
  <1>3. TypeOK'
    BY <1>1, <1>2, PortsApartKept DEF DaemonStep, TypeOK, WriteProps, Moves, clients, Starting, Alive, Left
  <1>4. FileHeld'
    BY DEF TypeOK, FileHeld, WriteProps, Moves, clients, Alive, Starting, Left
  <1> QED
    BY <1>1, <1>2, <1>3, <1>4 DEF WriteProps

LEMMA DaemonStepKeepsType ==
  ASSUME TypeOK, FileHeld, NEW d \in Daemons, DaemonStep(d)
  PROVE  TypeOK' /\ FileHeld'
  <1>p. PortsApart'
    BY PortsApartKept
  <1> USE <1>p
  <1>1. CASE Check(d) \/ Connect(d)
    BY <1>1 DEF TypeOK, FileHeld, Check, Connect, Moves, clients, disk, Starting, Alive, Left
  <1>2. CASE Listen(d)
    BY <1>2 DEF TypeOK, FileHeld, Listen, Moves, clients, disk, Starting, Alive, Left
  <1>3. CASE GivesUp(d)
    <2>1. dpc' = [dpc EXCEPT ![d] = "failed"] /\ UNCHANGED clients
      BY <1>3 DEF GivesUp, Moves
    <2> QED
      BY <1>3, <2>1 DEF TypeOK, FileHeld, GivesUp, clients, disk, Starting, Alive, Left
  <1>4. CASE ConnectFails(d)
    BY <1>4 DEF TypeOK, FileHeld, ConnectFails, DeletePropsFile, Moves, clients, Starting, Alive, Left
  <1>5. CASE Kill(d)
    BY <1>5 DEF TypeOK, FileHeld, Kill, Overlaps, DeletePropsFile, Moves, clients, Starting, Alive, Left
  <1>6. CASE KillAgain(d)
    BY <1>6 DEF TypeOK, FileHeld, KillAgain, DeletePropsFile, Moves, clients, Starting, Alive, Left
  <1>7. CASE Exit(d) \/ Crash(d) \/ NotifyFails(d)
    BY <1>7 DEF TypeOK, FileHeld, Exit, Crash, NotifyFails, Moves, clients, disk, Starting, Alive, Left
  <1> QED
    BY <1>1, <1>2, <1>3, <1>4, <1>5, <1>6, <1>7, BeginKeepsType, WritePropsKeepsType DEF DaemonStep

LEMMA ClientStepKeepsType ==
  ASSUME TypeOK, FileHeld, NEW c \in Controls, ClientStep(c)
  PROVE  TypeOK' /\ FileHeld'
  <1>p. PortsApart'
    BY DEF TypeOK, PortsApart, ClientStep, ClientOpen, ClientRead, ClientConnect, daemons
  <1> USE <1>p
  <1>1. CASE ClientOpen(c)
    <2>1. cfile' \in [Controls -> 0 .. Len(content')] /\ cfile'[c] # 0
      BY <1>1, OpenKeepsType DEF TypeOK, ClientOpen
    <2>2. file' \in [Daemons -> 0 .. Len(content')]
      BY <1>1, OpenKeepsType DEF TypeOK, ClientOpen, daemons
    <2> QED
      BY <1>1, <2>1, <2>2, OpenKeepsType DEF TypeOK, FileHeld, ClientOpen, daemons
  <1>2. CASE ClientRead(c)
    <2>1. cfile[c] \in 1 .. Len(content)
      BY <1>2 DEF TypeOK, FileHeld, ClientRead
    <2>2. content[cfile[c]] # <<>> => Head(content[cfile[c]]) \in Daemons
      BY <2>1 DEF TypeOK
    <2>3. GetDaemonPort(cfile[c]) \in Int
      <3>1. \A p \in Ports \cup {0} : p \in Int
        BY PropsAssumption
      <3>2. \A e \in Daemons : written[e] \in Ports \cup {0}
        BY DEF TypeOK
      <3> QED
        BY <2>2, <3>1, <3>2 DEF GetDaemonPort
    <2> QED
      BY <1>2, <2>3 DEF TypeOK, FileHeld, ClientRead, daemons, disk
  <1>3. CASE ClientConnect(c)
    BY <1>3 DEF TypeOK, FileHeld, ClientConnect, daemons, disk
  <1> QED
    BY <1>1, <1>2, <1>3 DEF ClientStep

LEMMA InitType == Init => TypeOK /\ FileHeld /\ Len(content) = 0
  <1>1. SUFFICES ASSUME Init PROVE TypeOK /\ FileHeld /\ Len(content) = 0
    OBVIOUS
  <1>2. content \in Seq(Seq(Daemons)) /\ Len(content) = 0
    BY <1>1 DEF Init
  <1>3. 0 \in 0 .. Len(content)
    BY <1>2
  <1>4. FileHeld
    BY <1>1 DEF Init, FileHeld, Starting, Alive, Left
  <1>5. PortsApart
    BY <1>1 DEF Init, PortsApart
  <1>6. TypeOK
    <2>1. /\ dpc \in [Daemons -> {"off", "refused", "failed", "ended"} \cup Left \cup Alive]
          /\ port \in [Daemons -> Ports \cup {0}] /\ written \in [Daemons -> Ports \cup {0}]
      BY <1>1 DEF Init
    <2>3. /\ cpc \in [Controls -> {"off", "read", "connect", "done"}]
          /\ cport \in [Controls -> Int]
      BY <1>1 DEF Init
    <2>4. joined \in [Daemons -> SUBSET Controls] /\ overlap \in BOOLEAN
      BY <1>1 DEF Init
    <2>2. /\ file \in [Daemons -> 0 .. Len(content)] /\ cfile \in [Controls -> 0 .. Len(content)]
          /\ visible \in 0 .. Len(content)
      BY <1>1, <1>3 DEF Init
    <2> QED
      BY <1>2, <1>5, <2>1, <2>2, <2>3, <2>4 DEF TypeOK
  <1> QED
    BY <1>2, <1>4, <1>6

\* Every state of the system is of its type, and no process reads a file it did not open.
THEOREM TypeCorrect == Spec => [](TypeOK /\ FileHeld)
  <1>1. TypeOK /\ FileHeld /\ [Next]_vars => TypeOK' /\ FileHeld'
    <2>1. ASSUME TypeOK, FileHeld, UNCHANGED vars PROVE TypeOK' /\ FileHeld'
      BY <2>1 DEF TypeOK, PortsApart, FileHeld, vars, daemons, disk, clients
    <2> QED
      BY <2>1, DaemonStepKeepsType, ClientStepKeepsType DEF Next
  <1> QED
    BY <1>1, InitType, PTL DEF Spec

----------------------------------------------------------------------------
(* No stale name *)

\* Whoever wrote into a file holds it open, and a daemon that fails or ends on its own has
\* removed the name of it.
Holds(f, d) ==
  /\ d \in Daemons
  /\ file[d] = f
  /\ dpc[d] \in {"connect", "serve", "dying", "ended", "failed", "crashed", "nowatch"}
  /\ dpc[d] \in {"dying", "ended", "failed"} => visible # f

WritersHold == \A f \in 1 .. Len(content) : \A i \in 1 .. Len(content[f]) : Holds(f, content[f][i])

NoStaleInv == TypeOK /\ FileHeld /\ WritersHold

\* What is written in the files after open() was written before.
LEMMA OpenKeepsWriters ==
  ASSUME TypeOK, WritersHold, OpenPropsFile,
         NEW f \in 1 .. Len(content'), NEW i \in 1 .. Len(content'[f])
  PROVE  /\ Holds(f, content'[f][i])
         /\ visible' = f => visible = f
  <1>1. CASE visible = 0
    <2>1. content' = Append(content, <<>>) /\ Len(content') = Len(content) + 1 /\ visible' = Len(content) + 1
      BY <1>1 DEF TypeOK, OpenPropsFile, Opened
    <2>2. content'[Len(content) + 1] = <<>> /\ \A g \in 1 .. Len(content) : content'[g] = content[g]
      BY <2>1, NewFile DEF TypeOK
    <2>3. f # Len(content) + 1
      BY <2>2
    <2>4. f \in 1 .. Len(content) /\ content'[f] = content[f]
      BY <2>1, <2>2, <2>3 DEF TypeOK
    <2> QED
      BY <2>1, <2>4 DEF WritersHold, TypeOK
  <1>2. CASE visible # 0
    BY <1>2 DEF OpenPropsFile, Opened, WritersHold
  <1> QED
    BY <1>1, <1>2

LEMMA BeginKeepsWriters ==
  ASSUME TypeOK, WritersHold, NEW d \in Daemons, Begin(d)
  PROVE  WritersHold'
  <1>1. SUFFICES ASSUME NEW f \in 1 .. Len(content'), NEW i \in 1 .. Len(content'[f])
                 PROVE  Holds(f, content[f][i])'
    BY DEF WritersHold
  <1> DEFINE e == content'[f][i]
  <1>2. Holds(f, e) /\ (visible' = f => visible = f)
    BY OpenKeepsWriters DEF Begin
  <1>3. e # d
    BY <1>2 DEF Holds, Begin, Moves
  <1>4. dpc'[e] = dpc[e] /\ file'[e] = file[e]
    BY <1>2, <1>3 DEF Holds, Begin, Moves, TypeOK
  <1> QED
    BY <1>2, <1>4 DEF Holds

LEMMA WritePropsKeepsWriters ==
  ASSUME TypeOK, FileHeld, WritersHold, NEW d \in Daemons, WriteProps(d)
  PROVE  WritersHold'
  <1>1. /\ file[d] \in 1 .. Len(content) /\ Len(content') = Len(content)
        /\ content' = [content EXCEPT ![file[d]] = Append(content[file[d]], d)]
    BY WritePropsKeepsType
  <1>2. dpc[d] = "write" /\ dpc' = [dpc EXCEPT ![d] = "connect"] /\ UNCHANGED <<file, visible>>
    BY DEF WriteProps, Moves
  <1>3. SUFFICES ASSUME NEW f \in 1 .. Len(content'), NEW i \in 1 .. Len(content'[f])
                 PROVE  Holds(f, content[f][i])'
    BY DEF WritersHold
  <1>4. f \in 1 .. Len(content) /\ content[f] \in Seq(Daemons)
    BY <1>1 DEF TypeOK
  <1>5. CASE i \in 1 .. Len(content[f]) /\ content'[f][i] = content[f][i]
    <2>1. Holds(f, content[f][i])
      BY <1>4, <1>5 DEF WritersHold
    <2> QED
      BY <1>2, <1>5, <2>1 DEF Holds, TypeOK
  <1>6. CASE f = file[d] /\ content'[f][i] = d
    BY <1>2, <1>6 DEF Holds, TypeOK
  <1>7. CASE f = file[d]
    <2>1. content'[f] = Append(content[f], d)
      BY <1>1, <1>4, <1>7
    <2> QED
      BY <1>4, <1>5, <1>6, <1>7, <2>1
  <1>8. CASE f # file[d]
    BY <1>1, <1>4, <1>5, <1>8
  <1> QED
    BY <1>7, <1>8

\* A step of a daemon that leaves the contents alone, seen from the names in the files.
Leaves(d) == \E s \in {"listen", "write", "serve", "refused", "failed", "crashed", "nowatch", "dying", "ended"} :
  /\ dpc' = [dpc EXCEPT ![d] = s]
  /\ dpc[d] \in Alive
  /\ dpc[d] \in {"connect", "serve", "dying"} => s \in {"serve", "dying", "ended", "failed", "crashed", "nowatch"}
  /\ s \in {"dying", "ended", "failed"} => visible' = 0 \/ dpc[d] \in {"dying", "listen", "write"}
  /\ visible' \in {visible, 0}
  /\ UNCHANGED <<content, file>>

LEMMA LeavesSteps ==
  ASSUME NEW d \in Daemons, DaemonStep(d)
  PROVE  Begin(d) \/ WriteProps(d) \/ Leaves(d)
  <1>1. CASE Check(d) \/ Connect(d) \/ Listen(d)
    BY <1>1 DEF Check, Connect, Listen, Moves, disk, Leaves, Alive, Starting, Left
  <1>2. CASE GivesUp(d)
    BY <1>2 DEF GivesUp, Moves, disk, Leaves, Alive, Starting, Left
  <1>3. CASE ConnectFails(d) \/ Kill(d) \/ KillAgain(d)
    BY <1>3 DEF ConnectFails, Kill, KillAgain, DeletePropsFile, Moves, Leaves, Alive, Starting, Left
  <1>4. CASE Exit(d)
    BY <1>4 DEF Exit, Moves, disk, Leaves, Alive, Starting, Left
  <1>5. CASE Crash(d) \/ NotifyFails(d)
    BY <1>5 DEF Crash, NotifyFails, Moves, disk, Leaves, Alive, Starting, Left
  <1> QED
    BY <1>1, <1>2, <1>3, <1>4, <1>5 DEF DaemonStep

LEMMA LeavesKeepsWriters ==
  ASSUME TypeOK, WritersHold, NEW d \in Daemons, Leaves(d)
  PROVE  WritersHold'
  <1>1. SUFFICES ASSUME NEW f \in 1 .. Len(content), NEW i \in 1 .. Len(content[f])
                 PROVE  Holds(f, content[f][i])'
    BY DEF WritersHold, Leaves
  <1> DEFINE e == content[f][i]
  <1>2. Holds(f, e)
    BY DEF WritersHold
  <1>3. file'[e] = f /\ UNCHANGED content
    BY <1>2 DEF Holds, Leaves
  <1>4. CASE e # d
    BY <1>2, <1>3, <1>4 DEF Holds, Leaves, TypeOK
  <1>5. CASE e = d
    <2>1. dpc[d] \in {"connect", "serve", "dying"}
      BY <1>2, <1>5 DEF Holds, Leaves, Alive, Starting, Left
    <2>2. dpc'[d] \in {"serve", "dying", "ended", "failed", "crashed", "nowatch"}
      BY <2>1 DEF Leaves, TypeOK
    <2>3. dpc'[d] \in {"dying", "ended", "failed"} => visible' = 0 \/ dpc[d] = "dying"
      BY <2>1 DEF Leaves, TypeOK
    <2>4. dpc'[d] \in {"dying", "ended", "failed"} => visible' # f
      BY <1>2, <1>5, <2>3 DEF Holds, Leaves
    <2> QED
      BY <1>2, <1>3, <1>5, <2>2, <2>4 DEF Holds
  <1> QED
    BY <1>4, <1>5

LEMMA ClientStepKeepsWriters ==
  ASSUME TypeOK, WritersHold, NEW c \in Controls, ClientStep(c)
  PROVE  WritersHold'
  <1>1. dpc' = dpc /\ file' = file
    BY DEF ClientStep, ClientOpen, ClientRead, ClientConnect, daemons
  <1>2. CASE ClientOpen(c)
    <2>1. SUFFICES ASSUME NEW f \in 1 .. Len(content'), NEW i \in 1 .. Len(content'[f])
                   PROVE  Holds(f, content[f][i])'
      BY DEF WritersHold
    <2>2. Holds(f, content'[f][i]) /\ (visible' = f => visible = f)
      BY <1>2, OpenKeepsWriters DEF ClientOpen
    <2> QED
      BY <1>1, <2>2 DEF Holds
  <1>3. CASE ClientRead(c) \/ ClientConnect(c)
    <2>1. UNCHANGED <<content, visible>>
      BY <1>3 DEF ClientRead, ClientConnect, disk
    <2> QED
      BY <1>1, <2>1 DEF WritersHold, Holds
  <1> QED
    BY <1>2, <1>3 DEF ClientStep

LEMMA NoStaleInvInductive == NoStaleInv /\ [Next]_vars => NoStaleInv'
  <1>1. ASSUME NoStaleInv, UNCHANGED vars PROVE NoStaleInv'
    BY <1>1 DEF NoStaleInv, TypeOK, PortsApart, FileHeld, WritersHold, Holds, vars, daemons, disk, clients
  <1>2. ASSUME NoStaleInv, NEW d \in Daemons, DaemonStep(d) PROVE NoStaleInv'
    BY <1>2, DaemonStepKeepsType, LeavesSteps, BeginKeepsWriters, WritePropsKeepsWriters,
       LeavesKeepsWriters DEF NoStaleInv
  <1>3. ASSUME NoStaleInv, NEW c \in Controls, ClientStep(c) PROVE NoStaleInv'
    BY <1>3, ClientStepKeepsType, ClientStepKeepsWriters DEF NoStaleInv
  <1> QED
    BY <1>1, <1>2, <1>3 DEF Next

THEOREM NoStaleInvHolds == Spec => []NoStaleInv
  <1>1. Init => NoStaleInv
    BY InitType DEF NoStaleInv, WritersHold
  <1> QED
    BY <1>1, NoStaleInvInductive, PTL DEF Spec

\* Whatever starts together, fails half way or is killed twice: the names that clients and
\* new daemons read in daemon.prop are those of daemons that live, crashed or
\* failed to make their inotify descriptor.
THEOREM NoStaleFileHolds == Spec => []NoStaleFile
  <1>1. NoStaleInv => NoStaleFile
    <2>1. SUFFICES ASSUME NoStaleInv, visible # 0, NEW i \in DOMAIN content[visible]
                   PROVE  dpc[content[visible][i]] \in {"connect", "serve"} \cup Left
      BY DEF NoStaleFile, Writers
    <2>2. visible \in 1 .. Len(content) /\ i \in 1 .. Len(content[visible])
      BY <2>1 DEF NoStaleInv, TypeOK
    <2>3. Holds(visible, content[visible][i])
      BY <2>1, <2>2 DEF NoStaleInv, WritersHold
    <2> QED
      BY <2>3 DEF Holds, Left
  <1> QED
    BY <1>1, NoStaleInvHolds, PTL

----------------------------------------------------------------------------
(* One daemon at a time *)

Busy == (Starting \ {"check"}) \cup {"serve"}

\* Two processes that live have different numbers.
ApartPids == \A d, e \in Daemons : dpc[d] \in Alive /\ dpc[e] \in Alive /\ Pid[d] = Pid[e] => d = e

\* The name that d reads in its file: its own, or the one of a daemon of its number that left it
OwnNumber(d) ==
  /\ dpc[d] \in {"listen", "write"} =>
       content[file[d]] = <<>> \/ Pid[content[file[d]][1]] = Pid[d]
  /\ dpc[d] \in {"connect", "serve"} =>
       content[file[d]] # <<>> /\ Pid[content[file[d]][1]] = Pid[d]

\* While starts and ends do not overlap, the path leads to the file of the daemon that
\* starts or serves, and there is one such daemon.
Alone ==
  /\ \A d, e \in Daemons : dpc[d] \in Busy /\ dpc[e] \in Busy => d = e
  /\ \A d, e \in Daemons : dpc[d] \in Starting /\ dpc[e] \in Starting => d = e
  /\ \A d, e \in Daemons : dpc[d] \in Starting \cup {"serve"} => dpc[e] # "dying"
  /\ \A d \in Daemons : dpc[d] \in Starting \cup {"serve"} => visible = file[d]
  /\ \A d \in Daemons : OwnNumber(d)

OneDaemonInv == NoStaleInv /\ ApartPids /\ (~overlap => Alone)

LEMMA ApartPidsKept ==
  ASSUME TypeOK, ApartPids, NEW d \in Daemons, DaemonStep(d)
  PROVE  ApartPids'
  <1>1. CASE Begin(d)
    BY <1>1 DEF TypeOK, ApartPids, Begin, Moves
  <1>2. CASE ~Begin(d)
    <2>1. WriteProps(d) \/ Leaves(d)
      BY <1>2, LeavesSteps
    <2>2. dpc[d] \in Alive /\ \A e \in Daemons \ {d} : dpc'[e] = dpc[e]
      BY <2>1 DEF WriteProps, Moves, Leaves, Alive, Starting, Left, TypeOK
    <2> QED
      BY <2>2 DEF ApartPids
  <1> QED
    BY <1>1, <1>2

\* A step after which nothing has overlapped comes after steps that did not overlap.
LEMMA StillApart ==
  ASSUME TypeOK, NEW d \in Daemons, DaemonStep(d), ~overlap'
  PROVE  /\ ~overlap
         /\ Begin(d) \/ Kill(d) => \A e \in Daemons : dpc[e] \notin Starting \cup {"dying"}
  <1>1. overlap' = overlap \/ Overlaps
    BY DEF DaemonStep, Begin, Check, Listen, GivesUp, WriteProps, Connect, ConnectFails, Kill,
           KillAgain, Exit, Crash, NotifyFails
  <1>2. ~overlap
    BY <1>1 DEF Overlaps
  <1>3. Begin(d) \/ Kill(d) => Overlaps
    BY DEF Begin, Kill
  <1> QED
    BY <1>2, <1>3 DEF Overlaps

LEMMA BeginKeepsAlone ==
  ASSUME TypeOK, FileHeld, Alone, NEW d \in Daemons, Begin(d),
         \A e \in Daemons : dpc[e] \notin Starting \cup {"dying"}
  PROVE  Alone'
  <1>1. \A e \in Daemons : dpc'[e] = (IF e = d THEN "check" ELSE dpc[e])
    BY DEF Begin, Moves, TypeOK
  <1>2. visible' = file'[d]
    BY OpenKeepsType DEF Begin, TypeOK
  <1>3. ASSUME NEW e \in Daemons, e # d
        PROVE  file'[e] = file[e] /\ (dpc[e] = "serve" => visible' = file[e] /\ content'[file[e]] = content[file[e]])
    <2>1. file'[e] = file[e]
      BY <1>3 DEF Begin, TypeOK
    <2>2. ASSUME dpc[e] = "serve"
          PROVE  visible' = file[e] /\ content'[file[e]] = content[file[e]]
      <3>1. file[e] # 0 /\ visible = file[e]
        BY <2>2 DEF FileHeld, Alive, Starting, Left, Alone
      <3> QED
        BY <3>1 DEF Begin, OpenPropsFile, Opened
    <2> QED
      BY <2>1, <2>2
  <1>4. (\A e \in Daemons : OwnNumber(e))'
    <2>1. SUFFICES ASSUME NEW e \in Daemons PROVE OwnNumber(e)'
      OBVIOUS
    <2>2. CASE e = d
      BY <1>1, <2>2 DEF OwnNumber
    <2>3. CASE e # d
      <3>1. OwnNumber(e) /\ dpc'[e] = dpc[e] /\ dpc[e] \notin {"listen", "write", "connect"}
        BY <1>1, <2>3 DEF Alone, Starting
      <3> QED
        BY <1>3, <2>3, <3>1 DEF OwnNumber
    <2> QED
      BY <2>2, <2>3
  <1>5. (\A e \in Daemons : dpc[e] \in Starting \cup {"serve"} => visible = file[e])'
    BY <1>1, <1>2, <1>3
  <1>6. (\A e \in Daemons : dpc[e] # "dying")'
    BY <1>1
  <1>7. (\A e, g \in Daemons : dpc[e] \in Busy /\ dpc[g] \in Busy => e = g)'
    BY <1>1 DEF Alone, Busy, Starting
  <1>8. (\A e, g \in Daemons : dpc[e] \in Starting /\ dpc[g] \in Starting => e = g)'
    BY <1>1 DEF Alone
  <1> QED
    BY <1>4, <1>5, <1>6, <1>7, <1>8 DEF Alone

\* The test: whoever serves has its number in the file, and it is another one.
LEMMA CheckKeepsAlone ==
  ASSUME TypeOK, ApartPids, Alone, NEW d \in Daemons, Check(d)
  PROVE  Alone'
  <1>1. /\ dpc[d] = "check"
        /\ \A e \in Daemons : dpc'[e] = IF e # d THEN dpc[e]
                                        ELSE IF IsActiveDaemon(d) THEN "listen" ELSE "refused"
        /\ UNCHANGED <<file, content, visible>>
    BY DEF Check, Moves, TypeOK, disk
  <1>2. file[d] = visible /\ \A e \in Daemons : dpc[e] \in Starting => e = d
    BY <1>1 DEF Alone, Starting
  <1>3. IsActiveDaemon(d) => content[file[d]] = <<>> \/ Pid[content[file[d]][1]] = Pid[d]
    BY DEF IsActiveDaemon
  <1>4. IsActiveDaemon(d) => \A e \in Daemons : dpc[e] # "serve"
    <2>1. SUFFICES ASSUME NEW e \in Daemons, dpc[e] = "serve", IsActiveDaemon(d) PROVE FALSE
      OBVIOUS
    <2>2. file[e] = file[d]
      BY <1>2, <2>1 DEF Alone
    <2>3. content[file[e]] # <<>> /\ Pid[content[file[e]][1]] = Pid[e]
      BY <2>1 DEF Alone, OwnNumber
    <2>4. Pid[d] = Pid[e]
      BY <1>3, <2>1, <2>2, <2>3
    <2> QED
      BY <1>1, <2>1, <2>4 DEF ApartPids, Alive, Starting, Left
  <1>5. (\A e \in Daemons : OwnNumber(e))'
    BY <1>1, <1>3 DEF Alone, OwnNumber
  <1>6. (\A e, g \in Daemons : dpc[e] \in Busy /\ dpc[g] \in Busy => e = g)'
    BY <1>1, <1>2, <1>4 DEF Alone, Busy, Starting
  <1> QED
    BY <1>1, <1>5, <1>6 DEF Alone, Starting

LEMMA WritePropsKeepsAlone ==
  ASSUME TypeOK, FileHeld, Alone, NEW d \in Daemons, WriteProps(d)
  PROVE  Alone'
  <1>1. /\ file[d] \in 1 .. Len(content)
        /\ content' = [content EXCEPT ![file[d]] = Append(content[file[d]], d)]
    BY WritePropsKeepsType
  <1>2. content[file[d]] \in Seq(Daemons)
    BY <1>1 DEF TypeOK
  <1>3. /\ content'[file[d]] # <<>>
        /\ content'[file[d]][1] = IF content[file[d]] = <<>> THEN d ELSE content[file[d]][1]
    <2>1. content'[file[d]] = Append(content[file[d]], d)
      BY <1>1 DEF TypeOK
    <2> QED
      BY <1>2, <2>1, FirstStays
  <1>4. /\ dpc[d] = "write" /\ UNCHANGED <<file, visible>>
        /\ \A e \in Daemons : dpc'[e] = IF e = d THEN "connect" ELSE dpc[e]
    BY DEF WriteProps, Moves, TypeOK
  <1>5. \A e \in Daemons \ {d} : dpc[e] \notin Busy
    BY <1>4 DEF Alone, Busy, Starting
  <1>6. (\A e \in Daemons : OwnNumber(e))'
    BY <1>3, <1>4, <1>5 DEF Alone, OwnNumber, Busy, Starting
  <1> QED
    BY <1>4, <1>6 DEF Alone, Busy, Starting

\* The other steps go on or end; the name is removed only when no other daemon starts or serves.
LEMMA RestKeepsAlone ==
  ASSUME TypeOK, Alone, NEW d \in Daemons, Leaves(d), ~Check(d), DaemonStep(d),
         Kill(d) => \A e \in Daemons : dpc[e] \notin Starting \cup {"dying"}
  PROVE  Alone'
  <1>1. UNCHANGED <<content, file>> /\ \A e \in Daemons \ {d} : dpc'[e] = dpc[e]
    BY DEF Leaves, TypeOK
  <1>2. CASE Listen(d) \/ Connect(d)
    <2>1. /\ UNCHANGED visible
          /\ (dpc[d] = "listen" /\ dpc'[d] = "write") \/ (dpc[d] = "connect" /\ dpc'[d] = "serve")
      BY <1>2 DEF Listen, Connect, Moves, disk, TypeOK
    <2> QED
      BY <1>1, <2>1 DEF Alone, OwnNumber, Busy, Starting
  <1>3. CASE Kill(d)
    <2>1. dpc[d] = "serve" /\ dpc'[d] = "dying"
      BY <1>3 DEF Kill, Moves, TypeOK
    <2>2. \A e \in Daemons : dpc'[e] \notin Starting \cup {"serve"}
      BY <1>1, <1>3, <2>1 DEF Alone, Busy, Starting
    <2> QED
      BY <1>1, <2>2 DEF Alone, OwnNumber, Busy, Starting
  <1>4. CASE KillAgain(d)
    <2>1. dpc[d] = "dying" /\ dpc'[d] = "dying"
      BY <1>4 DEF KillAgain, Moves, TypeOK
    <2> QED
      BY <1>1, <2>1 DEF Alone, OwnNumber, Busy, Starting
  <1>5. CASE ConnectFails(d)
    <2>1. dpc[d] = "connect" /\ dpc'[d] = "failed"
      BY <1>5 DEF ConnectFails, Moves, TypeOK
    <2>2. \A e \in Daemons : dpc'[e] \notin Starting \cup {"serve"}
      BY <1>1, <2>1 DEF Alone, Busy, Starting
    <2> QED
      BY <1>1, <2>2 DEF Alone, OwnNumber, Busy, Starting
  <1>6. CASE GivesUp(d) \/ Exit(d) \/ Crash(d) \/ NotifyFails(d)
    <2>1. UNCHANGED visible /\ dpc'[d] \in {"failed", "ended", "crashed", "nowatch"}
      BY <1>6 DEF GivesUp, Exit, Crash, NotifyFails, Moves, disk, TypeOK
    <2> QED
      BY <1>1, <2>1 DEF Alone, OwnNumber, Busy, Starting
  <1>7. ~Begin(d) /\ ~WriteProps(d)
    <2>1. dpc'[d] # "check"
      BY DEF Leaves, TypeOK
    <2>2. dpc[d] = "write" => dpc'[d] # "connect"
      BY DEF Leaves, TypeOK
    <2> QED
      BY <2>1, <2>2 DEF Begin, WriteProps, Moves, TypeOK
  <1> QED
    BY <1>2, <1>3, <1>4, <1>5, <1>6, <1>7 DEF DaemonStep

LEMMA ClientStepKeepsAlone ==
  ASSUME TypeOK, FileHeld, Alone, NEW c \in Controls, ClientStep(c)
  PROVE  Alone'
  <1>1. dpc' = dpc /\ file' = file
    BY DEF ClientStep, ClientOpen, ClientRead, ClientConnect, daemons
  <1>2. CASE ClientOpen(c)
    <2>1. ASSUME NEW e \in Daemons, dpc[e] \in Starting \cup {"serve"}
          PROVE  visible' = file[e] /\ content' = content
      <3>1. file[e] # 0 /\ visible = file[e]
        BY <2>1 DEF FileHeld, Alive, Alone
      <3> QED
        BY <1>2, <3>1 DEF ClientOpen, OpenPropsFile, Opened
    <2> QED
      BY <1>1, <2>1 DEF Alone, OwnNumber, Starting
  <1>3. CASE ClientRead(c) \/ ClientConnect(c)
    <2>1. UNCHANGED <<content, visible>>
      BY <1>3 DEF ClientRead, ClientConnect, disk
    <2> QED
      BY <1>1, <2>1 DEF Alone, OwnNumber
  <1> QED
    BY <1>2, <1>3 DEF ClientStep

LEMMA OneDaemonInvInductive == OneDaemonInv /\ [Next]_vars => OneDaemonInv'
  <1>1. SUFFICES ASSUME OneDaemonInv, [Next]_vars, NoStaleInv' PROVE OneDaemonInv'
    BY NoStaleInvInductive DEF OneDaemonInv
  <1>2. CASE UNCHANGED vars
    BY <1>1, <1>2 DEF OneDaemonInv, ApartPids, Alone, OwnNumber, vars, daemons, disk
  <1>3. ASSUME NEW d \in Daemons, DaemonStep(d) PROVE OneDaemonInv'
    <2>1. TypeOK /\ FileHeld /\ ApartPids /\ (~overlap => Alone)
      BY <1>1 DEF OneDaemonInv, NoStaleInv
    <2>2. ApartPids'
      BY <1>3, <2>1, ApartPidsKept
    <2>3. ~overlap' => Alone'
      BY <1>3, <2>1, StillApart, LeavesSteps, BeginKeepsAlone, CheckKeepsAlone,
         WritePropsKeepsAlone, RestKeepsAlone
    <2> QED
      BY <1>1, <2>2, <2>3 DEF OneDaemonInv
  <1>4. ASSUME NEW c \in Controls, ClientStep(c) PROVE OneDaemonInv'
    <2>1. TypeOK /\ FileHeld /\ ApartPids /\ (~overlap => Alone)
      BY <1>1 DEF OneDaemonInv, NoStaleInv
    <2>2. dpc' = dpc /\ overlap' = overlap
      BY <1>4 DEF ClientStep, ClientOpen, ClientRead, ClientConnect, daemons
    <2>3. ~overlap => Alone'
      BY <1>4, <2>1, ClientStepKeepsAlone
    <2> QED
      BY <1>1, <2>1, <2>2, <2>3 DEF OneDaemonInv, ApartPids
  <1> QED
    BY <1>1, <1>2, <1>3, <1>4 DEF Next

THEOREM OneDaemonInvHolds == Spec => []OneDaemonInv
  <1>1. Init /\ NoStaleInv => OneDaemonInv
    BY DEF Init, OneDaemonInv, ApartPids, Alone, OwnNumber, Busy, Starting, Alive, Left
  <1>2. Init => NoStaleInv
    BY InitType DEF NoStaleInv, WritersHold
  <1> QED
    BY <1>1, <1>2, OneDaemonInvInductive, PTL DEF Spec

\* Daemons that do not start or end together are one at a time, whatever crashes.
THEOREM OneDaemonHolds == Spec => []OneDaemon
  <1>1. OneDaemonInv => OneDaemon
    BY DEF OneDaemonInv, Alone, OneDaemon, Busy
  <1> QED
    BY <1>1, OneDaemonInvHolds, PTL

\* A daemon that is refused found the name of one that serves, or of one that crashed or
\* failed to make its inotify descriptor.
THEOREM RefusedForADaemonHolds == Spec => RefusedForADaemon
  <1>1. ASSUME OneDaemonInv, Next, NEW d \in Daemons,
               dpc[d] = "check", dpc'[d] = "refused", ~overlap
        PROVE  \E e \in Daemons : dpc[e] \in {"serve"} \cup Left
    <2>1. TypeOK /\ FileHeld /\ WritersHold /\ Alone
      BY <1>1 DEF OneDaemonInv, NoStaleInv
    <2>2. PICK e \in Daemons : DaemonStep(e)
      <3>1. ASSUME NEW c \in Controls, ClientStep(c) PROVE dpc' = dpc
        BY <3>1 DEF ClientStep, ClientOpen, ClientRead, ClientConnect, daemons
      <3> QED
        BY <1>1, <3>1 DEF Next
    <2>3. e = d
      <3>1. Begin(e) \/ WriteProps(e) \/ Leaves(e)
        BY <2>2, LeavesSteps
      <3> QED
        BY <1>1, <2>1, <3>1 DEF Begin, WriteProps, Moves, Leaves, TypeOK
    <2>4. CASE ~IsActiveDaemon(d)
      <3>1. file[d] \in 1 .. Len(content) /\ visible = file[d]
        BY <1>1, <2>1 DEF TypeOK, FileHeld, Alone, Starting, Alive, Left
      <3>2. content[visible] \in Seq(Daemons) /\ content[visible] # <<>>
        BY <2>1, <2>4, <3>1 DEF IsActiveDaemon, TypeOK
      <3>3. 1 \in 1 .. Len(content[visible])
        BY <3>2
      <3>4. Holds(visible, content[visible][1])
        BY <2>1, <3>1, <3>3 DEF WritersHold
      <3>5. dpc[content[visible][1]] # "connect"
        BY <1>1, <2>1, <3>4 DEF Alone, Starting, Holds
      <3> QED
        BY <3>4, <3>5 DEF Holds, Left
    <2>5. CASE IsActiveDaemon(d)
      BY <1>1, <2>1, <2>2, <2>3, <2>5 DEF DaemonStep, Begin, Check, Listen, GivesUp, WriteProps,
         Connect, ConnectFails, Kill, KillAgain, Exit, Crash, NotifyFails, Moves, TypeOK
    <2> QED
      BY <2>4, <2>5
  <1>2. OneDaemonInv /\ [Next]_vars =>
          [\A d \in Daemons : dpc[d] = "check" /\ dpc'[d] = "refused" /\ ~overlap =>
             \E e \in Daemons : dpc[e] \in {"serve"} \cup Left]_vars
    BY <1>1
  <1> QED
    BY <1>2, OneDaemonInvHolds, PTL DEF Spec, RefusedForADaemon

----------------------------------------------------------------------------
(* Clients find the daemon *)

NoneLeft == \A d \in Daemons : dpc[d] \notin Left

\* What d's file says of it: nothing before it writes, its own name and port afterwards
Names(d) ==
  /\ dpc[d] \in {"listen", "write"} => content[file[d]] = <<>>
  /\ dpc[d] \in {"connect", "serve"} =>
       content[file[d]] # <<>> /\ content[file[d]][1] = d /\ written[d] = port[d]

NamesInv == OneDaemonInv /\ (~overlap /\ NoneLeft => \A d \in Daemons : Names(d))

LEMMA BeginKeepsNames ==
  ASSUME TypeOK, FileHeld, Alone, \A e \in Daemons : Names(e), NEW d \in Daemons, Begin(d),
         \A e \in Daemons : dpc[e] \notin Starting \cup {"dying"}
  PROVE  (\A e \in Daemons : Names(e))'
  <1>1. SUFFICES ASSUME NEW e \in Daemons, dpc'[e] \in {"listen", "write", "connect", "serve"}
                 PROVE  Names(e)'
    BY DEF Names
  <1>2. e # d /\ dpc'[e] = dpc[e] /\ file'[e] = file[e] /\ UNCHANGED <<port, written>>
    BY <1>1 DEF Begin, Moves, TypeOK, OpenPropsFile
  <1>3. dpc[e] = "serve"
    BY <1>1, <1>2 DEF Starting
  <1>4. file[e] # 0 /\ visible = file[e]
    BY <1>3 DEF FileHeld, Alive, Starting, Left, Alone
  <1>5. content' = content
    BY <1>4 DEF Begin, OpenPropsFile
  <1> QED
    BY <1>2, <1>5 DEF Names

LEMMA CheckKeepsNames ==
  ASSUME NoStaleInv, ApartPids, Alone, NoneLeft, \A e \in Daemons : Names(e),
         NEW d \in Daemons, Check(d)
  PROVE  (\A e \in Daemons : Names(e))'
  <1>1. /\ dpc[d] = "check" /\ UNCHANGED <<file, content, written, port>>
        /\ \A e \in Daemons : dpc'[e] = IF e # d THEN dpc[e]
                                        ELSE IF IsActiveDaemon(d) THEN "listen" ELSE "refused"
    BY DEF Check, Moves, NoStaleInv, TypeOK, disk
  <1>2. content[file[d]] # <<>> => ~IsActiveDaemon(d)
    <2>1. SUFFICES ASSUME content[file[d]] # <<>>, IsActiveDaemon(d) PROVE FALSE
      OBVIOUS
    <2>2. file[d] \in 1 .. Len(content) /\ visible = file[d]
      BY <1>1 DEF NoStaleInv, TypeOK, FileHeld, Alone, Starting, Alive, Left
    <2>3. content[visible] \in Seq(Daemons) /\ 1 \in 1 .. Len(content[visible])
      BY <2>1, <2>2 DEF NoStaleInv, TypeOK
    <2> DEFINE e == content[visible][1]
    <2>4. Holds(visible, e)
      BY <2>2, <2>3 DEF NoStaleInv, WritersHold
    <2>5. dpc[e] \in {"connect", "serve"}
      BY <2>4 DEF Holds, NoneLeft, Left
    <2>6. Pid[e] = Pid[d] /\ e \in Daemons
      BY <2>1, <2>2, <2>4 DEF IsActiveDaemon, Holds
    <2>7. e = d
      BY <1>1, <2>5, <2>6 DEF ApartPids, Alive, Starting, Left
    <2> QED
      BY <1>1, <2>5, <2>7
  <1> QED
    BY <1>1, <1>2 DEF Names

LEMMA WritePropsKeepsNames ==
  ASSUME TypeOK, FileHeld, Alone, \A e \in Daemons : Names(e), NEW d \in Daemons, WriteProps(d)
  PROVE  (\A e \in Daemons : Names(e))'
  <1>1. /\ file[d] \in 1 .. Len(content)
        /\ content' = [content EXCEPT ![file[d]] = Append(content[file[d]], d)]
    BY WritePropsKeepsType
  <1>2. content'[file[d]] # <<>> /\ content'[file[d]][1] = IF content[file[d]] = <<>> THEN d ELSE content[file[d]][1]
    <2>1. content'[file[d]] = Append(content[file[d]], d) /\ content[file[d]] \in Seq(Daemons)
      BY <1>1 DEF TypeOK
    <2> QED
      BY <2>1, FirstStays
  <1>3. /\ dpc[d] = "write" /\ UNCHANGED <<file, port>>
        /\ \A e \in Daemons : dpc'[e] = IF e = d THEN "connect" ELSE dpc[e]
        /\ written'[d] = port[d]
    BY DEF WriteProps, Moves, TypeOK
  <1>4. content[file[d]] = <<>>
    BY <1>3 DEF Names
  <1>5. \A e \in Daemons \ {d} : dpc[e] \notin Busy
    BY <1>3 DEF Alone, Busy, Starting
  <1> QED
    BY <1>2, <1>3, <1>4, <1>5 DEF Names, Busy, Starting

LEMMA RestKeepsNames ==
  ASSUME TypeOK, Alone, \A e \in Daemons : Names(e), NEW d \in Daemons, Leaves(d), DaemonStep(d), ~Check(d)
  PROVE  (\A e \in Daemons : Names(e))'
  <1>1. UNCHANGED <<content, file>> /\ \A e \in Daemons \ {d} : dpc'[e] = dpc[e]
    BY DEF Leaves, TypeOK
  <1>2. ~Begin(d) /\ ~WriteProps(d)
    <2>1. dpc'[d] # "check" /\ (dpc[d] = "write" => dpc'[d] # "connect")
      BY DEF Leaves, TypeOK
    <2> QED
      BY <2>1 DEF Begin, WriteProps, Moves, TypeOK
  <1>3. UNCHANGED written /\ \A e \in Daemons \ {d} : port'[e] = port[e]
    BY <1>2 DEF DaemonStep, Check, Listen, GivesUp, Connect, ConnectFails, Kill, KillAgain, Exit,
                Crash, NotifyFails, DeletePropsFile, disk, TypeOK
  <1>4. CASE Listen(d)
    <2>1. dpc[d] = "listen" /\ dpc'[d] = "write"
      BY <1>4 DEF Listen, Moves, TypeOK
    <2> QED
      BY <1>1, <1>3, <2>1 DEF Names
  <1>5. CASE Connect(d)
    <2>1. dpc[d] = "connect" /\ dpc'[d] = "serve" /\ UNCHANGED port
      BY <1>5 DEF Connect, Moves, TypeOK
    <2> QED
      BY <1>1, <1>3, <2>1 DEF Names
  <1>6. CASE ~Listen(d) /\ ~Connect(d)
    <2>1. dpc'[d] \in {"failed", "dying", "ended", "crashed", "nowatch"}
      BY <1>2, <1>6 DEF DaemonStep, GivesUp, ConnectFails, Kill, KillAgain, Exit, Crash, NotifyFails, Moves, TypeOK
    <2> QED
      BY <1>1, <1>3, <2>1 DEF Names
  <1> QED
    BY <1>4, <1>5, <1>6

LEMMA ClientStepKeepsNames ==
  ASSUME TypeOK, FileHeld, Alone, \A e \in Daemons : Names(e), NEW c \in Controls, ClientStep(c)
  PROVE  (\A e \in Daemons : Names(e))'
  <1>1. UNCHANGED <<dpc, file, port, written>>
    BY DEF ClientStep, ClientOpen, ClientRead, ClientConnect, daemons, disk, OpenPropsFile
  <1>2. ASSUME NEW e \in Daemons, dpc[e] \in Starting \cup {"serve"} PROVE content' = content
    <2>1. file[e] # 0 /\ visible = file[e]
      BY <1>2 DEF FileHeld, Alive, Alone
    <2> QED
      BY <2>1 DEF ClientStep, ClientOpen, ClientRead, ClientConnect, disk, OpenPropsFile
  <1> QED
    BY <1>1, <1>2 DEF Names, Starting

LEMMA NamesInvInductive == NamesInv /\ [Next]_vars => NamesInv'
  <1>1. SUFFICES ASSUME NamesInv, [Next]_vars, OneDaemonInv' PROVE NamesInv'
    BY OneDaemonInvInductive DEF NamesInv
  <1>2. CASE UNCHANGED vars
    BY <1>1, <1>2 DEF NamesInv, Names, NoneLeft, vars, daemons, disk
  <1>3. /\ OneDaemonInv /\ NoStaleInv /\ TypeOK /\ FileHeld /\ ApartPids
        /\ ~overlap => Alone
        /\ ~overlap /\ NoneLeft => \A e \in Daemons : Names(e)
    BY <1>1 DEF NamesInv, OneDaemonInv, NoStaleInv
  <1>4. ASSUME NEW d \in Daemons, DaemonStep(d) PROVE NamesInv'
    <2>1. NoneLeft' => NoneLeft
      <3>1. Begin(d) \/ WriteProps(d) \/ Leaves(d)
        BY <1>4, LeavesSteps
      <3> QED
        BY <1>3, <3>1 DEF NoneLeft, Begin, WriteProps, Moves, Leaves, TypeOK, Alive, Starting, Left
    <2>2. ~overlap' => ~overlap
      BY <1>3, <1>4, StillApart
    <2>3. ASSUME ~overlap', NoneLeft' PROVE (\A e \in Daemons : Names(e))'
      BY <1>3, <1>4, <2>1, <2>2, <2>3, StillApart, LeavesSteps, BeginKeepsNames, CheckKeepsNames,
         WritePropsKeepsNames, RestKeepsNames
    <2> QED
      BY <1>1, <2>3 DEF NamesInv
  <1>5. ASSUME NEW c \in Controls, ClientStep(c) PROVE NamesInv'
    <2>1. dpc' = dpc /\ overlap' = overlap
      BY <1>5 DEF ClientStep, ClientOpen, ClientRead, ClientConnect, daemons
    <2>2. ~overlap /\ NoneLeft => (\A e \in Daemons : Names(e))'
      BY <1>3, <1>5, ClientStepKeepsNames
    <2> QED
      BY <1>1, <2>1, <2>2 DEF NamesInv, NoneLeft
  <1> QED
    BY <1>1, <1>2, <1>4, <1>5 DEF Next

\* While no start overlaps and no daemon crashes or fails to make its inotify descriptor, clients read the port of the daemon that serves.
THEOREM FileNamesDaemonHolds == Spec => []FileNamesDaemon
  <1>1. Init => NamesInv
    <2>1. Init => OneDaemonInv
      BY InitType DEF Init, OneDaemonInv, NoStaleInv, WritersHold, ApartPids, Alone, OwnNumber,
         Busy, Starting, Alive, Left
    <2> QED
      BY <2>1 DEF Init, NamesInv, Names
  <1>2. NamesInv => FileNamesDaemon
    <2>1. SUFFICES ASSUME NamesInv, ~overlap, NoneLeft, NEW d \in Daemons, dpc[d] = "serve"
                   PROVE  visible # 0 /\ GetDaemonPort(visible) = port[d]
      BY DEF FileNamesDaemon, NoneLeft
    <2>2. visible = file[d] /\ file[d] # 0
      BY <2>1 DEF NamesInv, OneDaemonInv, NoStaleInv, FileHeld, Alone, Alive, Starting, Left
    <2>3. content[visible] # <<>> /\ content[visible][1] = d /\ written[d] = port[d]
      BY <2>1, <2>2 DEF NamesInv, Names
    <2> QED
      BY <2>2, <2>3 DEF GetDaemonPort
  <1> QED
    BY <1>1, <1>2, NamesInvInductive, PTL DEF Spec
================================================================================
