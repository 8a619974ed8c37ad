------------------------- MODULE CommandProtocolProofs -------------------------
(* Theorems about the commands of clients and their answers, for every set of       *)
(* clients, every set of commands and listings, and every way in which recv() may    *)
(* cut what is there.                                                               *)
EXTENDS CommandProtocol, SequenceTheorems, TLAPS

----------------------------------------------------------------------------
(* The inductive invariant *)

Pieces   == Seq(Seq(Octets))
Commands == [op : Octets \cup {"-"}, flag : Octets \cup {"-"}, path : Seq(Octets)]
Threads  == [pc : {"off", "new", "op", "flag", "size", "path", "do", "send", "gone"},
             serves : Clients, req : Commands, size : Int, out : Pieces]
Programs == [pc : {"off", "typing", "sending", "count", "size", "path", "answer", "left"},
             req : Commands, todo : Pieces, nb : Int, size : Int, lines : Nat]
Outcomes == {"Y", "N"}
Records  == [sent : Seq(Commands), done : Seq(Commands), given : Seq(Outcomes), got : Seq(Outcomes),
             listed : Pieces, shown : Pieces]

\* The strong form of the type invariant: every field of every record has its type.
ThreadTypes ==
  /\ thread \in [Clients -> Threads]
  /\ \A t \in Clients : thread[t].pc = "send" => thread[t].out # <<>>

ClientTypes ==
  /\ client \in [Clients -> Programs]
  /\ \A c \in Clients :
       /\ client[c].pc = "sending" => client[c].todo # <<>>
       /\ client[c].pc = "path" => client[c].size > 0
       /\ client[c].lines <= MaxLines[c]

LinkTypes ==
  /\ proc \in {"up", "dying", "ended", "broken"}
  /\ backlog \in Seq(Clients) /\ infos \subseteq Clients
  /\ up \in [Clients -> Seq(Octets)] /\ down \in [Clients -> Seq(Octets)]
  /\ hungup \subseteq Clients /\ reset \subseteq Clients /\ refused \subseteq Clients
  /\ hist \in [Clients -> Records]
  /\ blank \subseteq Clients /\ mixed \in BOOLEAN

Types == ThreadTypes /\ ClientTypes /\ LinkTypes

\* The octets s are the pieces j + 1 to k of p, one after the other.
Spells(s, p, j, k) ==
  /\ j \in 0 .. k /\ k \in 0 .. Len(p)
  /\ \E off \in [j .. k -> 0 .. Len(s)] :
       /\ off[j] = 0 /\ off[k] = Len(s)
       /\ \A i, h \in j .. k : i <= h => off[i] <= off[h]
       /\ \A i \in j .. k - 1 : /\ off[i + 1] = off[i] + Len(p[i + 1])
                                /\ \A m \in 1 .. Len(p[i + 1]) : s[off[i] + m] = p[i + 1][m]

\* The accept loop: who is connected and not accepted has no thread yet, and only the client
\* that was accepted last has a thread that has not looked at infos_client.
Accepting ==
  /\ IsInjective(backlog)
  /\ \A i \in DOMAIN backlog : /\ thread[backlog[i]].pc = "off" /\ client[backlog[i]].pc # "off"
                               /\ backlog[i] \notin hungup
  /\ \A t \in Clients : thread[t].pc = "new" => infos = {t}

\* The connection stands.
Open(c) == Living /\ c \notin hungup

\* The thread of a connection, and the thread of a client that has left
Served(c) ==
  /\ thread[c].serves = c
  /\ thread[c].pc = "gone" => c \in hungup
  /\ c \in hungup => thread[c].pc \in {"off", "gone"}
  /\ client[c].pc = "off" => thread[c].pc = "off" /\ c \notin hungup
  /\ thread[c].pc = "send" => Len(thread[c].out) = 1 \/ thread[c].req.op = "L"
  /\ thread[c].pc = "send" /\ thread[c].req.op = "K" => client[c].pc = "left"
  /\ c \in reset => client[c].pc = "left"
  /\ c \in reset /\ Open(c) => thread[c].pc = "op" \/ (thread[c].pc = "send" /\ thread[c].req.op = "L")
  /\ c \in reset /\ Open(c) => up[c] = <<>>

\* No command is on its way.
Quiet(c) ==
  /\ thread[c].pc \in {"off", "new", "op", "send"}
  /\ up[c] = <<>> /\ hist[c].sent = hist[c].done
  /\ client[c].pc = "sending" => client[c].req \in Requests[c] /\ client[c].todo = Sends(client[c].req)

\* The first k pieces of the command r were sent.
SentOf(c, r, k) ==
  \/ /\ client[c].pc = "sending" /\ client[c].req = r /\ client[c].todo = SubSeq(Sends(r), k + 1, Len(Sends(r)))
     /\ k < Len(Sends(r)) /\ hist[c].sent = hist[c].done
  \/ client[c].pc = "left" /\ k < Len(Sends(r)) /\ hist[c].sent = hist[c].done
  \/ /\ client[c].pc \in {AfterSending(r.op), "left"} /\ k = Len(Sends(r))
     /\ hist[c].sent = Append(hist[c].done, r) /\ hist[c].shown = <<>>

\* The first m pieces of the command r were received.
ReceivedOf(c, r, m) ==
  \/ m = 0 /\ thread[c].pc \in {"off", "new", "op"}
  \/ m = 1 /\ thread[c].pc = "flag" /\ thread[c].req = [None EXCEPT !.op = r.op] /\ r.op \in {"S", "R", "D"}
  \/ /\ \/ m = 2 /\ thread[c].pc = "size"
        \/ m = 3 /\ thread[c].pc = "path" /\ thread[c].size = Len(r.path)
     /\ thread[c].req = [r EXCEPT !.path = <<>>] /\ Len(Sends(r)) = 4
  \/ m = Len(Sends(r)) /\ thread[c].pc = "do" /\ thread[c].req = r

\* A command is on its way.
Carried(c) ==
  \E r \in Requests[c] : \E k \in 1 .. Len(Sends(r)) : \E m \in 0 .. k :
    SentOf(c, r, k) /\ ReceivedOf(c, r, m) /\ Spells(up[c], Sends(r), m, k)

Upward(c) ==
  /\ IsPrefix(hist[c].done, hist[c].sent)
  /\ Open(c) => Quiet(c) \/ Carried(c)

\* No answer is on its way, and none will come before the next command.
Silent(c) ==
  /\ down[c] = <<>> /\ IsPrefix(hist[c].got, hist[c].given)
  /\ Open(c) => /\ thread[c].pc # "send"
                /\ \/ hist[c].got = hist[c].given /\ client[c].pc \in {"off", "typing", "sending", "count", "answer"}
                   \/ client[c].pc \in {"size", "answer"} /\ Quiet(c)
  /\ hist[c].sent = hist[c].done /\ hist[c].got = hist[c].given
     => hist[c].shown = hist[c].listed

\* What a thread sends for the paths it lists and the outcome x
Reply(paths, x) == Append(ListSends(paths), <<x>>)

\* The first i pieces of a reply with these paths were read.
ReadOf(c, paths, i) ==
  \/ i = 0 /\ client[c].pc = "count" /\ hist[c].shown = <<>>
  \/ \E q \in 0 .. Len(paths) - 1 :
       /\ \/ i = 2 * q + 1 /\ client[c].pc = "size"
          \/ i = 2 * q + 2 /\ client[c].pc = "path" /\ client[c].size = Len(paths[q + 1])
       /\ client[c].nb = Len(paths) - q /\ hist[c].shown = SubSeq(paths, 1, q)
  \/ i = 2 * Len(paths) + 1 /\ client[c].pc = "answer" /\ hist[c].shown = paths

\* The reply p is on its way: its first j pieces were sent and the first i of them read.
Moves(c, p, i, j) ==
  /\ Spells(down[c], p, i, j) /\ i < Len(p)
  /\ Open(c) => \/ thread[c].pc = "send" /\ j < Len(p) /\ thread[c].out = SubSeq(p, j + 1, Len(p))
                \/ thread[c].pc = "op" /\ j = Len(p)

Due(c) ==
  \E x \in {"Y", "N"} :
    /\ hist[c].given = Append(hist[c].got, x)
    /\ Open(c) => Quiet(c)
    /\ \/ /\ client[c].pc = "answer" \/ (client[c].pc = "count" /\ x = "N")
          /\ hist[c].shown = <<>> /\ hist[c].listed = <<>>
          /\ \E j \in 0 .. 1 : Moves(c, <<<<x>>>>, 0, j)
       \/ /\ hist[c].listed \in Listings
          /\ \E i, j \in 0 .. 2 * Len(hist[c].listed) + 2 :
               ReadOf(c, hist[c].listed, i) /\ Moves(c, Reply(hist[c].listed, x), i, j)

Downward(c) ==
  /\ IsPrefix(hist[c].shown, hist[c].listed)
  /\ IsPrefix(hist[c].got, hist[c].given)
  /\ client[c].pc = "left" \/ Silent(c) \/ Due(c)

Link(c) == Served(c) /\ Upward(c) /\ Downward(c)

InSteps == ~mixed => Accepting /\ \A c \in Clients : Link(c)

Commanding == Types /\ InSteps /\ OnlyListsBreak

----------------------------------------------------------------------------
(* Octets and pieces *)

LEMMA OctetFacts ==
  /\ \A x \in {"S", "R", "D", "K", "E", "L", "Y", "N", "0"} : x \in Octets
  /\ Digits \in Seq(Octets)
  /\ Seq(Chars) \subseteq Seq(Octets)
  /\ <<>> \in Seq(Octets) /\ <<>> \in Pieces
  /\ None \in Commands
<1>1. Range(Digits) \subseteq Octets /\ Chars \subseteq Octets
  BY DEF Octets
<1>2. Digits \in Seq(Octets)
  BY <1>1, ProtocolAssumption
<1>3. Seq(Chars) \subseteq Seq(Octets)
  BY <1>1
<1>4. \A x \in {"S", "R", "D", "K", "E", "L", "Y", "N", "0"} : x \in Octets
  BY DEF Octets
<1> QED
  BY <1>2, <1>3, <1>4 DEF None, Commands, Pieces

LEMMA Int4Facts ==
  ASSUME NEW n \in Nat, n < Len(Digits)
  PROVE  Int4(n) \in Seq(Octets) /\ Len(Int4(n)) = 4
<1>1. Digits[n + 1] \in Octets
  BY OctetFacts
<1> QED
  BY <1>1, OctetFacts DEF Int4

LEMMA RequestFacts ==
  ASSUME NEW c \in Clients, NEW r \in Requests[c]
  PROVE  /\ r \in Commands /\ Len(r.path) \in Nat
         /\ Sends(r) \in Pieces /\ Sends(r) # <<>> /\ Len(Sends(r)) \in {1, 2, 4}
<1>1. r \in [op : {"S", "R", "D", "K", "E", "L"}, flag : {"Y", "N", "-"}, path : Seq(Chars)] /\ Len(r.path) < Len(Digits)
  BY ProtocolAssumption
<1>2. r \in Commands
  <2>1. r.op \in Octets /\ r.flag \in Octets \cup {"-"} /\ r.path \in Seq(Octets)
    BY <1>1, OctetFacts
  <2> QED
    BY <1>1, <2>1 DEF Commands
<1>3. Int4(Len(r.path)) \in Seq(Octets) /\ Len(r.path) \in Nat
  BY <1>1, Int4Facts
<1>4. <<r.op>> \in Seq(Octets)
  BY <1>1, OctetFacts
<1>5. r.path \in Seq(Octets)
  BY <1>2 DEF Commands
<1>6. r.op \notin {"K", "E", "L"} => <<r.flag>> \in Seq(Octets)
  <2>1. r.op \notin {"K", "E", "L"} => r.flag # "-"
    BY <1>1, ProtocolAssumption
  <2>2. r.flag # "-" => r.flag \in Octets
    BY <1>1, OctetFacts
  <2> QED
    BY <2>1, <2>2
<1>7. CASE r.op \in {"K", "E", "L"}
  BY <1>2, <1>3, <1>4, <1>7 DEF Sends, Pieces
<1>8. CASE r.op \notin {"K", "E", "L"}
  BY <1>2, <1>3, <1>4, <1>5, <1>6, <1>8 DEF Sends, Pieces
<1> QED
  BY <1>7, <1>8

LEMMA FunctionIsSeq ==
  ASSUME NEW S, NEW n \in Nat, NEW f \in [1 .. n -> S]
  PROVE  f \in Seq(S) /\ Len(f) = n
OBVIOUS

LEMMA ListFacts ==
  ASSUME NEW paths \in Listings
  PROVE  /\ paths \in Pieces /\ Len(paths) \in Nat
         /\ ListSends(paths) \in Pieces /\ Len(ListSends(paths)) = 2 * Len(paths) + 1
         /\ ListSends(paths)[1] = Int4(Len(paths))
         /\ \A q \in 0 .. Len(paths) - 1 : /\ ListSends(paths)[2 * q + 2] = Int4(Len(paths[q + 1]))
                                           /\ ListSends(paths)[2 * q + 3] = paths[q + 1]
<1>1. /\ paths \in Seq(Seq(Chars) \ {<<>>}) /\ Len(paths) \in Nat /\ Len(paths) < Len(Digits)
      /\ \A i \in 1 .. Len(paths) : Len(paths[i]) < Len(Digits)
  BY ProtocolAssumption
<1>2. \A i \in 1 .. Len(paths) : paths[i] \in Seq(Octets) /\ Len(paths[i]) \in Nat /\ Len(paths[i]) < Len(Digits)
  BY <1>1, OctetFacts
<1>3. paths \in Pieces
  <2>1. paths \in [1 .. Len(paths) -> Seq(Octets)]
    BY <1>1, <1>2
  <2> QED
    BY <1>1, <2>1, FunctionIsSeq, Zenon DEF Pieces
<1>4. \A i \in 1 .. 2 * Len(paths) + 1 : ListSends(paths)[i] \in Seq(Octets)
  <2> SUFFICES ASSUME NEW i \in 1 .. 2 * Len(paths) + 1 PROVE ListSends(paths)[i] \in Seq(Octets)
    OBVIOUS
  <2>1. CASE i = 1
    BY <1>1, <2>1, Int4Facts DEF ListSends
  <2>2. CASE i # 1
    <3>1. i \div 2 \in 1 .. Len(paths)
      BY <1>1, <2>2
    <3>2. ListSends(paths)[i] \in {Int4(Len(paths[i \div 2])), paths[i \div 2]}
      BY <2>2 DEF ListSends
    <3> QED
      BY <3>1, <3>2, <1>2, Int4Facts
  <2> QED
    BY <2>1, <2>2
<1>5. ListSends(paths) \in Pieces /\ Len(ListSends(paths)) = 2 * Len(paths) + 1
  <2>1. ListSends(paths) \in [1 .. 2 * Len(paths) + 1 -> Seq(Octets)]
    BY <1>4 DEF ListSends
  <2> DEFINE n == 2 * Len(paths) + 1
  <2>2. n \in Nat
    BY <1>1
  <2> HIDE DEF n
  <2>3. ListSends(paths) \in [1 .. n -> Seq(Octets)]
    BY <2>1 DEF n
  <2>4. ListSends(paths) \in Pieces /\ Len(ListSends(paths)) = n
    BY <2>2, <2>3, FunctionIsSeq, Zenon DEF Pieces
  <2> QED
    BY <2>4 DEF n
<1>6. ASSUME NEW q \in 0 .. Len(paths) - 1
      PROVE  /\ ListSends(paths)[2 * q + 2] = Int4(Len(paths[q + 1]))
             /\ ListSends(paths)[2 * q + 3] = paths[q + 1]
  <2>1. /\ (2 * q + 2) \div 2 = q + 1 /\ (2 * q + 2) % 2 = 0
        /\ (2 * q + 3) \div 2 = q + 1 /\ (2 * q + 3) % 2 = 1
        /\ 2 * q + 2 \in 2 .. 2 * Len(paths) + 1 /\ 2 * q + 3 \in 2 .. 2 * Len(paths) + 1
    BY <1>1
  <2> QED
    BY <2>1 DEF ListSends
<1>7. ListSends(paths)[1] = Int4(Len(paths))
  BY <1>1 DEF ListSends
<1> QED
  BY <1>1, <1>3, <1>5, <1>6, <1>7

LEMMA FromFacts ==
  ASSUME NEW S, NEW s \in Seq(S), NEW k \in Nat
  PROVE  From(s, k) \in Seq(S)
BY SubSeqProperties DEF From

LEMMA ArrivedFacts ==
  ASSUME NEW s \in Seq(Octets), NEW n \in Nat, NEW cut \in BOOLEAN, NEW o \in Arrived(s, n, cut)
  PROVE  /\ o \in Seq(Octets) /\ Len(o) \in 1 .. Len(s) /\ Len(o) <= n
         /\ o = SubSeq(s, 1, Len(o)) /\ o[1] \in Octets /\ s # <<>>
         /\ (~cut => Len(o) = Least(n, Len(s)))
<1> DEFINE all == Least(n, Len(s))
<1>1. all \in Int /\ all <= Len(s) /\ all <= n /\ Len(s) \in Nat
  BY DEF Least
<1>2. PICK k \in Int : o = SubSeq(s, 1, k) /\ k <= all /\ k # 0 /\ (~cut => k = all) /\ (cut => k >= 1)
  BY <1>1 DEF Arrived
<1>3. k >= 1
  BY <1>1, <1>2 DEF Least
<1>4. k \in 1 .. Len(s)
  BY <1>1, <1>2, <1>3
<1>5. o \in Seq(Octets) /\ Len(o) = k
  BY <1>2, <1>4, SubSeqProperties
<1> QED
  BY <1>1, <1>2, <1>4, <1>5

LEMMA IntsFacts ==
  ASSUME NEW o \in Seq(Octets)
  PROVE  Ints(o) \subseteq Int
BY DEF Ints, Huge

----------------------------------------------------------------------------
(* Type correctness *)

LEMMA TypesInit == Init => Types
<1> SUFFICES ASSUME Init PROVE Types
  OBVIOUS
<1>1. None \in Commands /\ <<>> \in Pieces /\ <<>> \in Seq(Octets)
  BY OctetFacts
<1>2. ThreadTypes
  BY <1>1 DEF Init, Threads, ThreadTypes
<1>3. client \in [Clients -> Programs]
  BY <1>1 DEF Init, Programs
<1>4. hist \in [Clients -> Records]
  BY <1>1 DEF Init, Records
<1>5. ClientTypes
  <2>1. \A c \in Clients : client[c].pc = "off" /\ client[c].lines = 0
    BY DEF Init
  <2>2. \A c \in Clients : client[c].lines <= MaxLines[c]
    BY <2>1, ProtocolAssumption
  <2> QED
    BY <1>3, <2>1, <2>2, Zenon DEF ClientTypes
<1>6. LinkTypes
  <2>1. mixed \in BOOLEAN
    BY Zenon DEF Init
  <2>2. backlog \in Seq(Clients)
    BY DEF Init
  <2> QED
    BY <1>1, <1>4, <2>1, <2>2 DEF Init, LinkTypes
<1> QED
  BY <1>2, <1>5, <1>6 DEF Types

\* A thread goes to a place where it does not send.
LEMMA ThreadMoves ==
  ASSUME ThreadTypes, NEW t \in Clients,
         NEW p \in {"off", "new", "op", "flag", "size", "path", "do", "gone"},
         \/ thread' = [thread EXCEPT ![t].pc = p]
         \/ \E c \in Clients : thread' = [thread EXCEPT ![t].pc = p, ![t].serves = c]
         \/ \E r \in Commands : thread' = [thread EXCEPT ![t].req = r, ![t].pc = p]
         \/ \E n \in Int : thread' = [thread EXCEPT ![t].size = n, ![t].pc = p]
  PROVE  ThreadTypes'
<1>1. thread' \in [Clients -> Threads]
  <2>1. CASE thread' = [thread EXCEPT ![t].pc = p]
    BY <2>1 DEF ThreadTypes, Threads
  <2>2. ASSUME NEW c \in Clients, thread' = [thread EXCEPT ![t].pc = p, ![t].serves = c]
        PROVE  thread' \in [Clients -> Threads]
    <3>1. PICK s : s = [thread EXCEPT ![t].pc = p]
      OBVIOUS
    <3>2. s \in [Clients -> Threads]
      BY <3>1 DEF ThreadTypes, Threads
    <3>3. thread' = [s EXCEPT ![t].serves = c]
      BY <2>2, <3>1, Zenon
    <3> QED
      BY <3>2, <3>3 DEF Threads
  <2>3. ASSUME NEW r \in Commands, thread' = [thread EXCEPT ![t].req = r, ![t].pc = p]
        PROVE  thread' \in [Clients -> Threads]
    <3>1. PICK s : s = [thread EXCEPT ![t].req = r]
      OBVIOUS
    <3>2. s \in [Clients -> Threads]
      BY <3>1 DEF ThreadTypes, Threads
    <3>3. thread' = [s EXCEPT ![t].pc = p]
      BY <2>3, <3>1, Zenon
    <3> QED
      BY <3>2, <3>3 DEF Threads
  <2>4. ASSUME NEW n \in Int, thread' = [thread EXCEPT ![t].size = n, ![t].pc = p]
        PROVE  thread' \in [Clients -> Threads]
    <3>1. PICK s : s = [thread EXCEPT ![t].size = n]
      OBVIOUS
    <3>2. s \in [Clients -> Threads]
      BY <3>1 DEF ThreadTypes, Threads
    <3>3. thread' = [s EXCEPT ![t].pc = p]
      BY <2>4, <3>1, Zenon
    <3> QED
      BY <3>2, <3>3 DEF Threads
  <2> QED
    BY <2>1, <2>2, <2>3, <2>4
<1>2. thread'[t].pc = p /\ \A u \in Clients \ {t} : thread'[u] = thread[u]
  BY DEF ThreadTypes, Threads
<1> QED
  BY <1>1, <1>2 DEF ThreadTypes

LEMMA TypesAccept ==
  ASSUME Types, Accept \/ AcceptFails
  PROVE  Types'
<1>1. backlog \in Seq(Clients) /\ backlog # <<>>
  BY DEF Types, LinkTypes, Accept, AcceptFails
<1>2. Head(backlog) \in Clients /\ Tail(backlog) \in Seq(Clients)
  BY <1>1
<1>3. ThreadTypes'
  <2>1. CASE Accept
    BY <2>1, <1>2, ThreadMoves DEF Accept, Types
  <2>2. CASE AcceptFails
    BY <2>2 DEF AcceptFails, Types, ThreadTypes
  <2> QED
    BY <2>1, <2>2
<1>4. /\ backlog' \in Seq(Clients) /\ infos' \subseteq Clients /\ hungup' \subseteq Clients
      /\ UNCHANGED <<proc, client, up, down, reset, refused, hist, blank>>
  BY <1>2 DEF Accept, AcceptFails, Types, LinkTypes, links
<1>5. mixed' \in BOOLEAN
  BY DEF Accept, AcceptFails, Types, LinkTypes
<1> QED
  BY <1>3, <1>4, <1>5 DEF Types, LinkTypes, ClientTypes

\* What recv() gave the thread is taken off the connection.
LEMMA ReceivesTypes ==
  ASSUME Types, NEW t \in Clients, NEW n \in Nat, NEW cut \in BOOLEAN,
         NEW o \in FromClient(t, n, cut), Receives(t, o)
  PROVE  /\ o \in Seq(Octets) /\ o # <<>> /\ o[1] \in Octets /\ Len(o) <= n
         /\ up' \in [Clients -> Seq(Octets)]
         /\ UNCHANGED <<proc, backlog, infos, client, down, reset, refused, hist, blank, mixed>>
<1>1. PICK c \in Clients : c = thread[t].serves
  BY DEF Types, ThreadTypes, Threads
<1>2. up[c] \in Seq(Octets)
  BY DEF Types, LinkTypes
<1>3. o \in Arrived(up[c], n, cut)
  BY <1>1 DEF FromClient
<1>4. o \in Seq(Octets) /\ o # <<>> /\ o[1] \in Octets /\ Len(o) <= n /\ Len(o) \in Nat
  <2>1. o \in Seq(Octets) /\ Len(o) \in 1 .. Len(up[c]) /\ o[1] \in Octets /\ Len(o) <= n
    BY <1>2, <1>3, ArrivedFacts
  <2> QED
    BY <2>1
<1>5. From(up[c], Len(o)) \in Seq(Octets)
  BY <1>2, <1>4, FromFacts
<1>6. up' = [up EXCEPT ![c] = From(up[c], Len(o))]
  BY <1>1 DEF Receives
<1>7. up' \in [Clients -> Seq(Octets)]
  BY <1>5, <1>6 DEF Types, LinkTypes
<1> QED
  BY <1>4, <1>7 DEF Receives, accept, marks

\* A step that takes octets, or ends the connection
LEMMA LinkTypesKept ==
  ASSUME Types, ThreadTypes', up' \in [Clients -> Seq(Octets)], hungup' \subseteq Clients,
         UNCHANGED <<proc, backlog, infos, client, down, reset, refused, hist, blank, mixed>>
  PROVE  Types'
BY DEF Types, LinkTypes, ClientTypes

LEMMA TypesReceive ==
  ASSUME Types, NEW t \in Clients,
         CopyInfos(t) \/ RecvOp(t) \/ RecvFlag(t) \/ RecvSize(t) \/ RecvPath(t) \/ RecvEnds(t)
  PROVE  Types'
<1> USE DEF Types
<1>0. /\ thread[t] \in Threads /\ thread[t].serves \in Clients /\ hungup \subseteq Clients
      /\ thread[t].req \in Commands /\ thread[t].size \in Int
  BY DEF ThreadTypes, LinkTypes, Threads
<1>1. CASE CopyInfos(t)
  <2>1. ThreadTypes'
    BY <1>1, ThreadMoves DEF CopyInfos, LinkTypes
  <2> QED
    BY <1>1, <2>1 DEF CopyInfos, LinkTypes, ClientTypes, links, accept, marks
<1>2. ASSUME NEW o \in FromClient(t, 1, FALSE), Receives(t, o), UNCHANGED hungup,
             NEW p \in {"op", "flag", "do"},
             thread' = [thread EXCEPT ![t].req = [None EXCEPT !.op = o[1]], ![t].pc = p]
      PROVE  Types'
  <2>1. o[1] \in Octets
    BY <1>2, ReceivesTypes
  <2>2. [None EXCEPT !.op = o[1]] \in Commands
    BY <2>1, OctetFacts DEF Commands
  <2>3. ThreadTypes'
    BY <1>2, <2>2, ThreadMoves
  <2> QED
    BY <1>0, <1>2, <2>3, ReceivesTypes, LinkTypesKept
<1>3. ASSUME NEW o \in FromClient(t, 1, FALSE), Receives(t, o), UNCHANGED hungup,
             NEW f \in {"Y", "N"}, NEW p \in {"size", "do"},
             thread' = [thread EXCEPT ![t].req.flag = f, ![t].pc = p]
      PROVE  Types'
  <2>1. PICK r : r = [thread[t].req EXCEPT !.flag = f]
    OBVIOUS
  <2>2. r \in Commands
    BY <1>0, <2>1, OctetFacts DEF Commands
  <2>3. thread' = [thread EXCEPT ![t].req = r, ![t].pc = p]
    BY <1>3, <2>1
  <2>4. ThreadTypes'
    BY <2>2, <2>3, ThreadMoves
  <2> QED
    BY <1>0, <1>3, <2>4, ReceivesTypes, LinkTypesKept
<1>4. ASSUME NEW o \in FromClient(t, 4, FALSE), Receives(t, o), UNCHANGED hungup, NEW n \in Ints(o),
             thread' = [thread EXCEPT ![t].size = n, ![t].pc = "path"]
      PROVE  Types'
  <2>1. n \in Int
    BY <1>4, ReceivesTypes, IntsFacts
  <2>2. ThreadTypes'
    BY <1>4, <2>1, ThreadMoves
  <2> QED
    BY <1>0, <1>4, <2>2, ReceivesTypes, LinkTypesKept
<1>5. ASSUME NEW o \in FromClient(t, thread[t].size, Splits), thread[t].size > 0, Receives(t, o), UNCHANGED hungup,
             thread' = [thread EXCEPT ![t].req.path = o, ![t].pc = "do"]
      PROVE  Types'
  <2>1. PICK r : r = [thread[t].req EXCEPT !.path = o]
    OBVIOUS
  <2>2. thread[t].size \in Nat /\ Splits \in BOOLEAN
    BY <1>0, <1>5, ProtocolAssumption
  <2>3. r \in Commands
    BY <1>0, <1>5, <2>1, <2>2, ReceivesTypes DEF Commands
  <2>4. thread' = [thread EXCEPT ![t].req = r, ![t].pc = "do"]
    BY <1>5, <2>1
  <2>5. ThreadTypes'
    BY <2>3, <2>4, ThreadMoves
  <2> QED
    BY <1>0, <1>5, <2>2, <2>5, ReceivesTypes, LinkTypesKept
<1>6. ASSUME CloseClient(t), up' \in [Clients -> Seq(Octets)],
             UNCHANGED <<proc, backlog, infos, client, down, reset, refused, hist, blank, mixed>>
      PROVE  Types'
  <2>1. ThreadTypes'
    BY <1>6, ThreadMoves DEF CloseClient
  <2> QED
    BY <1>0, <1>6, <2>1, LinkTypesKept DEF CloseClient
<1>7. ASSUME NEW o \in FromClient(t, thread[t].size, Splits), thread[t].size > 0, Receives(t, o), CloseClient(t)
      PROVE  Types'
  <2>1. thread[t].size \in Nat /\ Splits \in BOOLEAN
    BY <1>0, <1>7, ProtocolAssumption
  <2> QED
    BY <1>6, <1>7, <2>1, ReceivesTypes
<1>8. CASE RecvOp(t)
  BY <1>2, <1>8 DEF RecvOp
<1>9. CASE RecvFlag(t)
  BY <1>3, <1>9 DEF RecvFlag, AfterFlag
<1>10. CASE RecvSize(t)
  BY <1>4, <1>10 DEF RecvSize
<1>11. CASE RecvPath(t)
  BY <1>5, <1>7, <1>11 DEF RecvPath
<1>12. CASE RecvEnds(t)
  BY <1>6, <1>12 DEF RecvEnds, LinkTypes, accept, marks
<1> QED
  BY <1>1, <1>8, <1>9, <1>10, <1>11, <1>12

LEMMA AppendPiece ==
  ASSUME NEW s \in Pieces, NEW x \in Seq(Octets)
  PROVE  Append(s, x) \in Pieces /\ Append(s, x) # <<>>
<1>1. \A S : \A q \in Seq(S) : \A e \in S : Append(q, e) \in Seq(S) /\ Append(q, e) # <<>>
  OBVIOUS
<1> QED
  BY <1>1, Zenon DEF Pieces

\* EXCEPT, one field after the other
LEMMA PutSendOut ==
  ASSUME NEW r \in Threads, NEW p, NEW out
  PROVE  [r EXCEPT !.out = out, !.pc = p]
           = [pc |-> p, serves |-> r.serves, req |-> r.req, size |-> r.size, out |-> out]
<1>1. PICK s : s = [r EXCEPT !.out = out]
  OBVIOUS
<1>2. s = [pc |-> r.pc, serves |-> r.serves, req |-> r.req, size |-> r.size, out |-> out]
  BY <1>1 DEF Threads
<1>3. [s EXCEPT !.pc = p] = [pc |-> p, serves |-> r.serves, req |-> r.req, size |-> r.size, out |-> out]
  BY <1>2
<1> QED
  BY <1>1, <1>3

Doing(r, o) == [r EXCEPT !.pc = "send", !.out = o, !.req.path = <<>>, !.size = 0]

LEMMA PutDoes ==
  ASSUME NEW r \in Threads, NEW o
  PROVE  Doing(r, o)
           = [pc |-> "send", serves |-> r.serves, req |-> [r.req EXCEPT !.path = <<>>], size |-> 0, out |-> o]
<1>1. PICK s : s = [r EXCEPT !.pc = "send"]
  OBVIOUS
<1>2. s = [pc |-> "send", serves |-> r.serves, req |-> r.req, size |-> r.size, out |-> r.out]
  BY <1>1 DEF Threads
<1>3. PICK u : u = [s EXCEPT !.out = o]
  OBVIOUS
<1>4. u = [pc |-> "send", serves |-> r.serves, req |-> r.req, size |-> r.size, out |-> o]
  BY <1>2, <1>3
<1>5. PICK v : v = [u EXCEPT !.req.path = <<>>]
  OBVIOUS
<1>6. v = [pc |-> "send", serves |-> r.serves, req |-> [r.req EXCEPT !.path = <<>>], size |-> r.size, out |-> o]
  BY <1>4, <1>5
<1>7. [v EXCEPT !.size = 0]
        = [pc |-> "send", serves |-> r.serves, req |-> [r.req EXCEPT !.path = <<>>], size |-> 0, out |-> o]
  BY <1>6
<1> QED
  BY <1>1, <1>3, <1>5, <1>7 DEF Doing

Recording(h, d, g, l) == [h EXCEPT !.done = d, !.given = g, !.listed = l]

LEMMA PutDone ==
  ASSUME NEW h \in Records, NEW d, NEW g, NEW l
  PROVE  Recording(h, d, g, l)
           = [sent |-> h.sent, done |-> d, given |-> g, got |-> h.got, listed |-> l, shown |-> h.shown]
<1>1. PICK s : s = [h EXCEPT !.done = d]
  OBVIOUS
<1>2. s = [sent |-> h.sent, done |-> d, given |-> h.given, got |-> h.got, listed |-> h.listed, shown |-> h.shown]
  BY <1>1 DEF Records
<1>3. PICK u : u = [s EXCEPT !.given = g]
  OBVIOUS
<1>4. u = [sent |-> h.sent, done |-> d, given |-> g, got |-> h.got, listed |-> h.listed, shown |-> h.shown]
  BY <1>2, <1>3
<1>5. [u EXCEPT !.listed = l]
        = [sent |-> h.sent, done |-> d, given |-> g, got |-> h.got, listed |-> l, shown |-> h.shown]
  BY <1>4
<1> QED
  BY <1>1, <1>3, <1>5 DEF Recording

LEMMA ThreadPut ==
  ASSUME ThreadTypes, NEW t \in Clients, NEW r \in Threads, r.pc = "send" => r.out # <<>>,
         thread' = [thread EXCEPT ![t] = r]
  PROVE  ThreadTypes'
BY DEF ThreadTypes

LEMMA ClientPut ==
  ASSUME ClientTypes, NEW c \in Clients, NEW r \in Programs,
         r.pc = "sending" => r.todo # <<>>, r.pc = "path" => r.size > 0, r.lines <= MaxLines[c],
         client' = [client EXCEPT ![c] = r]
  PROVE  ClientTypes'
BY DEF ClientTypes

\* The thread after a command was done
LEMMA DoesThread ==
  ASSUME Types, NEW t \in Clients, NEW x \in Outcomes, NEW paths, NEW sends \in Pieces,
         Does(t, x, paths, sends)
  PROVE  \E r \in Threads :
           /\ r = [pc |-> "send", serves |-> thread[t].serves, req |-> [thread[t].req EXCEPT !.path = <<>>],
                   size |-> 0, out |-> Append(sends, <<x>>)]
           /\ thread' = [thread EXCEPT ![t] = r] /\ r.out # <<>>
<1> DEFINE r == [pc |-> "send", serves |-> thread[t].serves, req |-> [thread[t].req EXCEPT !.path = <<>>],
                 size |-> 0, out |-> Append(sends, <<x>>)]
<1>1. thread[t] \in Threads /\ thread[t].serves \in Clients /\ thread[t].req \in Commands
  BY DEF Types, ThreadTypes, Threads
<1>2. [thread[t].req EXCEPT !.path = <<>>] \in Commands
  BY <1>1, OctetFacts DEF Commands
<1>3. <<x>> \in Seq(Octets)
  BY OctetFacts DEF Outcomes
<1>4. Append(sends, <<x>>) \in Pieces /\ Append(sends, <<x>>) # <<>>
  BY <1>3, AppendPiece
<1>5. r \in Threads /\ r.out # <<>>
  BY <1>1, <1>2, <1>4 DEF Threads
<1>6. Doing(thread[t], Append(sends, <<x>>)) = r
  BY <1>1, PutDoes
<1>7. thread' = [thread EXCEPT ![t] = Doing(thread[t], Append(sends, <<x>>))]
  BY Zenon DEF Does, Doing
<1> QED
  BY <1>5, <1>6, <1>7, Zenon

LEMMA DoesTypes ==
  ASSUME Types, NEW t \in Clients, NEW x \in Outcomes, NEW paths \in Pieces, NEW sends \in Pieces,
         Does(t, x, paths, sends), proc' \in {"up", "dying"}
  PROVE  Types'
<1>1. ThreadTypes'
  <2>1. PICK r \in Threads : thread' = [thread EXCEPT ![t] = r] /\ r.out # <<>>
    BY DoesThread
  <2> QED
    BY <2>1, ThreadPut DEF Types
<1>2. PICK c \in Clients : c = thread[t].serves
  BY DEF Types, ThreadTypes, Threads
<1>3. PICK H \in Records : H = hist[c]
  BY DEF Types, LinkTypes
<1>4. thread[t].req \in Commands
  BY DEF Types, LinkTypes, ThreadTypes, Threads
<1>5. PICK d, g : d = Append(H.done, thread[t].req) /\ g = Append(H.given, x)
  OBVIOUS
<1>6. PICK h : h = Recording(H, d, g, paths)
  OBVIOUS
<1>7. h \in Records
  <2>1. h = [sent |-> H.sent, done |-> d, given |-> g, got |-> H.got, listed |-> paths, shown |-> H.shown]
    BY <1>6, PutDone
  <2>2. d \in Seq(Commands) /\ g \in Seq(Outcomes)
    BY <1>4, <1>5 DEF Records
  <2> QED
    BY <2>1, <2>2 DEF Records
<1>8. hist' = [hist EXCEPT ![c] = h]
  BY <1>2, <1>3, <1>6, <1>5, Zenon DEF Does, Recording
<1>9. hist' \in [Clients -> Records]
  BY <1>7, <1>8 DEF Types, LinkTypes
<1>10. UNCHANGED <<backlog, infos, client, up, down, hungup, reset, refused, blank, mixed>>
  BY DEF Does, accept, links, marks
<1> QED
  BY <1>1, <1>9, <1>10 DEF Types, LinkTypes, ClientTypes

LEMMA TypesDo ==
  ASSUME Types, NEW t \in Clients, DoCommand(t) \/ DoList(t) \/ DoKill(t)
  PROVE  Types'
<1>1. <<>> \in Pieces /\ \A paths \in Listings : paths \in Pieces /\ ListSends(paths) \in Pieces
  BY OctetFacts, ListFacts
<1>2. CASE DoCommand(t)
  BY <1>1, <1>2, DoesTypes DEF DoCommand, Living, Outcomes
<1>3. CASE DoList(t)
  BY <1>1, <1>3, DoesTypes DEF DoList, Living, Outcomes
<1>4. CASE DoKill(t)
  BY <1>1, <1>4, DoesTypes DEF DoKill, Living, Outcomes
<1> QED
  BY <1>2, <1>3, <1>4

\* The thread after a call of send()
LEMMA SendOutThread ==
  ASSUME Types, NEW t \in Clients, SendOut(t)
  PROVE  /\ thread[t].out \in Pieces /\ thread[t].out # <<>> /\ Head(thread[t].out) \in Seq(Octets)
         /\ \E r \in Threads :
              /\ r = [pc |-> IF Tail(thread[t].out) # <<>> THEN "send" ELSE IF thread[t].req.op = "K" THEN "gone" ELSE "op",
                      serves |-> thread[t].serves, req |-> thread[t].req,
                      size |-> thread[t].size, out |-> Tail(thread[t].out)]
              /\ thread' = [thread EXCEPT ![t] = r]
<1> DEFINE p == IF Tail(thread[t].out) # <<>> THEN "send" ELSE IF thread[t].req.op = "K" THEN "gone" ELSE "op"
           r == [pc |-> p, serves |-> thread[t].serves, req |-> thread[t].req,
                 size |-> thread[t].size, out |-> Tail(thread[t].out)]
<1>1. thread[t] \in Threads /\ thread[t].out \in Pieces /\ thread[t].out # <<>>
  BY DEF Types, ThreadTypes, Threads, SendOut
<1>2. Tail(thread[t].out) \in Pieces /\ Head(thread[t].out) \in Seq(Octets)
  BY <1>1 DEF Pieces
<1>3. r \in Threads
  BY <1>1, <1>2 DEF Threads
<1>4. [thread[t] EXCEPT !.out = Tail(thread[t].out), !.pc = p] = r
  BY <1>1, PutSendOut, Zenon
<1>5. thread' = [thread EXCEPT ![t] = r]
  BY <1>4, Zenon DEF SendOut
<1> QED
  BY <1>1, <1>2, <1>3, <1>5

LEMMA TypesSendOut ==
  ASSUME Types, NEW t \in Clients, SendOut(t)
  PROVE  Types'
<1>1. ThreadTypes'
  <2>1. PICK r \in Threads : thread' = [thread EXCEPT ![t] = r] /\ (r.pc = "send" => r.out # <<>>)
    BY SendOutThread
  <2> QED
    BY <2>1, ThreadPut DEF Types
<1>2. PICK c \in Clients : c = thread[t].serves
  BY DEF Types, ThreadTypes, Threads
<1>3. down' \in [Clients -> Seq(Octets)]
  <2>1. down[c] \o Head(thread[t].out) \in Seq(Octets)
    <3>1. down[c] \in Seq(Octets) /\ Head(thread[t].out) \in Seq(Octets)
      BY SendOutThread DEF Types, LinkTypes
    <3> QED
      BY <3>1
  <2> QED
    BY <1>2, <2>1 DEF SendOut, Types, LinkTypes
<1>4. hungup' \subseteq Clients /\ reset' \subseteq Clients /\ proc' \in {"up", "dying", "ended", "broken"}
  BY <1>2 DEF SendOut, Types, LinkTypes
<1>5. UNCHANGED <<backlog, infos, client, up, refused, hist, blank, mixed>>
  BY DEF SendOut, accept, marks
<1> QED
  BY <1>1, <1>3, <1>4, <1>5 DEF Types, LinkTypes, ClientTypes

\* The records that the steps of a client make, EXCEPT by EXCEPT
Sent(r, todo, p) == [r EXCEPT !.todo = todo, !.pc = p]

LEMMA SentIs ==
  ASSUME NEW r \in Programs, NEW todo, NEW p
  PROVE  Sent(r, todo, p) = [pc |-> p, req |-> r.req, todo |-> todo, nb |-> r.nb, size |-> r.size, lines |-> r.lines]
<1>1. PICK s : s = [r EXCEPT !.todo = todo]
  OBVIOUS
<1>2. s = [pc |-> r.pc, req |-> r.req, todo |-> todo, nb |-> r.nb, size |-> r.size, lines |-> r.lines]
  BY <1>1 DEF Programs
<1>3. [s EXCEPT !.pc = p]
        = [pc |-> p, req |-> r.req, todo |-> todo, nb |-> r.nb, size |-> r.size, lines |-> r.lines]
  BY <1>2
<1> QED
  BY <1>1, <1>3 DEF Sent

Counted(r, n, p) == [r EXCEPT !.nb = n, !.pc = p]

LEMMA CountedIs ==
  ASSUME NEW r \in Programs, NEW n, NEW p
  PROVE  Counted(r, n, p) = [pc |-> p, req |-> r.req, todo |-> r.todo, nb |-> n, size |-> r.size, lines |-> r.lines]
<1>1. PICK s : s = [r EXCEPT !.nb = n]
  OBVIOUS
<1>2. s = [pc |-> r.pc, req |-> r.req, todo |-> r.todo, nb |-> n, size |-> r.size, lines |-> r.lines]
  BY <1>1 DEF Programs
<1>3. [s EXCEPT !.pc = p]
        = [pc |-> p, req |-> r.req, todo |-> r.todo, nb |-> n, size |-> r.size, lines |-> r.lines]
  BY <1>2
<1> QED
  BY <1>1, <1>3 DEF Counted

Sized(r, n, p) == [r EXCEPT !.size = n, !.pc = p]

LEMMA SizedIs ==
  ASSUME NEW r \in Programs, NEW n, NEW p
  PROVE  Sized(r, n, p) = [pc |-> p, req |-> r.req, todo |-> r.todo, nb |-> r.nb, size |-> n, lines |-> r.lines]
<1>1. PICK s : s = [r EXCEPT !.size = n]
  OBVIOUS
<1>2. s = [pc |-> r.pc, req |-> r.req, todo |-> r.todo, nb |-> r.nb, size |-> n, lines |-> r.lines]
  BY <1>1 DEF Programs
<1>3. [s EXCEPT !.pc = p]
        = [pc |-> p, req |-> r.req, todo |-> r.todo, nb |-> r.nb, size |-> n, lines |-> r.lines]
  BY <1>2
<1> QED
  BY <1>1, <1>3 DEF Sized

Typed(r, q, todo, l) == [r EXCEPT !.pc = "sending", !.req = q, !.todo = todo, !.lines = l]

LEMMA TypedIs ==
  ASSUME NEW r \in Programs, NEW q, NEW todo, NEW l
  PROVE  Typed(r, q, todo, l) = [pc |-> "sending", req |-> q, todo |-> todo, nb |-> r.nb, size |-> r.size, lines |-> l]
<1>1. PICK s : s = [r EXCEPT !.pc = "sending"]
  OBVIOUS
<1>2. s = [pc |-> "sending", req |-> r.req, todo |-> r.todo, nb |-> r.nb, size |-> r.size, lines |-> r.lines]
  BY <1>1 DEF Programs
<1>3. PICK u : u = [s EXCEPT !.req = q]
  OBVIOUS
<1>4. u = [pc |-> "sending", req |-> q, todo |-> r.todo, nb |-> r.nb, size |-> r.size, lines |-> r.lines]
  BY <1>3, <1>2
<1>5. PICK v : v = [u EXCEPT !.todo = todo]
  OBVIOUS
<1>6. v = [pc |-> "sending", req |-> q, todo |-> todo, nb |-> r.nb, size |-> r.size, lines |-> r.lines]
  BY <1>5, <1>4
<1>7. [v EXCEPT !.lines = l]
        = [pc |-> "sending", req |-> q, todo |-> todo, nb |-> r.nb, size |-> r.size, lines |-> l]
  BY <1>6
<1> QED
  BY <1>1, <1>3, <1>5, <1>7 DEF Typed

Blank(r, l) == [r EXCEPT !.pc = "answer", !.req = None, !.lines = l]

LEMMA BlankIs ==
  ASSUME NEW r \in Programs, NEW l
  PROVE  Blank(r, l) = [pc |-> "answer", req |-> None, todo |-> r.todo, nb |-> r.nb, size |-> r.size, lines |-> l]
<1>1. PICK s : s = [r EXCEPT !.pc = "answer"]
  OBVIOUS
<1>2. s = [pc |-> "answer", req |-> r.req, todo |-> r.todo, nb |-> r.nb, size |-> r.size, lines |-> r.lines]
  BY <1>1 DEF Programs
<1>3. PICK u : u = [s EXCEPT !.req = None]
  OBVIOUS
<1>4. u = [pc |-> "answer", req |-> None, todo |-> r.todo, nb |-> r.nb, size |-> r.size, lines |-> r.lines]
  BY <1>3, <1>2
<1>5. [u EXCEPT !.lines = l]
        = [pc |-> "answer", req |-> None, todo |-> r.todo, nb |-> r.nb, size |-> r.size, lines |-> l]
  BY <1>4
<1> QED
  BY <1>1, <1>3, <1>5 DEF Blank

LEMMA ProgramFacts ==
  ASSUME Types, NEW c \in Clients
  PROVE  /\ client[c] \in Programs /\ client[c].lines \in Nat /\ client[c].lines <= MaxLines[c]
         /\ client[c].req \in Commands /\ client[c].todo \in Pieces
         /\ client[c].nb \in Int /\ client[c].size \in Int
         /\ client[c].pc = "sending" => client[c].todo # <<>>
         /\ client[c].pc = "path" => client[c].size > 0
         /\ up[c] \in Seq(Octets) /\ down[c] \in Seq(Octets) /\ hist[c] \in Records
         /\ thread[c] \in Threads /\ MaxLines[c] \in Nat
BY ProtocolAssumption DEF Types, ClientTypes, Programs, LinkTypes, ThreadTypes

LEMMA AtTypes ==
  ASSUME Types, NEW c \in Clients, NEW p \in {"typing", "left"}, client' = At(c, p)
  PROVE  ClientTypes'
<1>1. PICK r : r = [pc |-> p, req |-> None, todo |-> <<>>, nb |-> 0, size |-> 0, lines |-> client[c].lines]
  OBVIOUS
<1>2. r \in Programs
  BY <1>1, ProgramFacts, OctetFacts DEF Programs
<1>3. client' = [client EXCEPT ![c] = r]
  BY <1>1 DEF At
<1> QED
  BY <1>1, <1>2, <1>3, ClientPut, ProgramFacts DEF Types

\* The other parts of the state after a step of a client
LEMMA ClientRest ==
  ASSUME Types, ClientTypes', NEW c \in Clients, ClientDoes(c),
         backlog' \in Seq(Clients), up' \in [Clients -> Seq(Octets)], down' \in [Clients -> Seq(Octets)],
         refused' \subseteq Clients, hist' \in [Clients -> Records], blank' \subseteq Clients
  PROVE  Types'
BY DEF Types, LinkTypes, ThreadTypes, ClientDoes

LEMMA TypesPrompt ==
  ASSUME Types, NEW c \in Clients,
         Connect(c) \/ (\E q \in Requests[c] : Type(c, q)) \/ TypeNothing(c) \/ Leave(c)
  PROVE  Types'
<1>0. /\ client[c] \in Programs /\ client[c].lines \in Nat /\ MaxLines[c] \in Nat
      /\ backlog \in Seq(Clients) /\ up \in [Clients -> Seq(Octets)] /\ down \in [Clients -> Seq(Octets)]
      /\ refused \subseteq Clients /\ hist \in [Clients -> Records] /\ blank \subseteq Clients
  BY ProgramFacts DEF Types, LinkTypes
<1>1. CASE Connect(c)
  <2>1. ClientTypes'
    <3>1. PICK r : r = [client[c] EXCEPT !.pc = "typing"]
      OBVIOUS
    <3>2. r \in Programs /\ r.pc = "typing" /\ r.lines = client[c].lines
      BY <1>0, <3>1 DEF Programs
    <3>3. client' = [client EXCEPT ![c] = r]
      BY <1>1, <3>1, Zenon DEF Connect
    <3> QED
      BY <3>2, <3>3, ClientPut, ProgramFacts DEF Types
  <2>2. backlog' \in Seq(Clients)
    BY <1>0, <1>1 DEF Connect
  <2> QED
    BY <1>0, <1>1, <2>1, <2>2, ClientRest DEF Connect
<1>2. ASSUME NEW q \in Requests[c], Type(c, q) PROVE Types'
  <2>1. PICK l : l = client[c].lines + 1
    OBVIOUS
  <2>2. l \in Nat /\ l <= MaxLines[c]
    <3>1. client[c].lines < MaxLines[c]
      BY <1>2 DEF Type
    <3> QED
      BY <1>0, <2>1, <3>1
  <2>3. PICK r : r = Typed(client[c], q, Sends(q), l)
    OBVIOUS
  <2>4. r = [pc |-> "sending", req |-> q, todo |-> Sends(q), nb |-> client[c].nb, size |-> client[c].size, lines |-> l]
    BY <1>0, <2>3, TypedIs
  <2>5. q \in Commands /\ Sends(q) \in Pieces /\ Sends(q) # <<>>
    BY RequestFacts
  <2>6. r \in Programs
    BY <2>2, <2>4, <2>5, ProgramFacts DEF Programs
  <2>7. client' = [client EXCEPT ![c] = r]
    BY <1>2, <2>1, <2>3, Zenon DEF Type, Typed
  <2>8. ClientTypes'
    BY <2>2, <2>4, <2>5, <2>6, <2>7, ClientPut DEF Types
  <2> QED
    BY <1>0, <1>2, <2>8, ClientRest DEF Type
<1>3. CASE TypeNothing(c)
  <2>1. PICK l : l = client[c].lines + 1
    OBVIOUS
  <2>2. l \in Nat /\ l <= MaxLines[c]
    BY <1>0, <1>3, <2>1 DEF TypeNothing
  <2>3. PICK r : r = Blank(client[c], l)
    OBVIOUS
  <2>4. r = [pc |-> "answer", req |-> None, todo |-> client[c].todo, nb |-> client[c].nb, size |-> client[c].size, lines |-> l]
    BY <1>0, <2>3, BlankIs
  <2>6. r \in Programs
    BY <2>2, <2>4, ProgramFacts, OctetFacts DEF Programs
  <2>7. client' = [client EXCEPT ![c] = r]
    BY <1>3, <2>1, <2>3, Zenon DEF TypeNothing, Blank
  <2>8. ClientTypes'
    BY <2>2, <2>4, <2>6, <2>7, ClientPut DEF Types
  <2> QED
    BY <1>0, <1>3, <2>8, ClientRest DEF TypeNothing
<1>4. CASE Leave(c)
  <2>1. ClientTypes'
    BY <1>4, AtTypes DEF Leave, Left
  <2>2. down' \in [Clients -> Seq(Octets)]
    BY <1>0, <1>4, OctetFacts DEF Leave
  <2> QED
    BY <1>0, <1>4, <2>1, <2>2, ClientRest DEF Leave
<1> QED
  BY <1>1, <1>2, <1>3, <1>4

\* The client after a call of send(), unless it leaves
LEMMA SendTodoClient ==
  ASSUME Types, NEW c \in Clients, SendTodo(c)
  PROVE  /\ client[c].todo \in Pieces /\ client[c].todo # <<>> /\ Head(client[c].todo) \in Seq(Octets)
         /\ \/ client' = Left(c) /\ Closed(c)
            \/ \E r \in Programs :
                 /\ r = [pc |-> IF Tail(client[c].todo) = <<>> THEN AfterSending(client[c].req.op) ELSE "sending",
                         req |-> client[c].req, todo |-> Tail(client[c].todo),
                         nb |-> client[c].nb, size |-> client[c].size, lines |-> client[c].lines]
                 /\ client' = [client EXCEPT ![c] = r]
<1>1. client[c] \in Programs /\ client[c].todo \in Pieces /\ client[c].todo # <<>>
  BY ProgramFacts DEF SendTodo
<1>2. Tail(client[c].todo) \in Pieces /\ Head(client[c].todo) \in Seq(Octets)
  BY <1>1 DEF Pieces
<1>3. PICK p : p = IF Tail(client[c].todo) = <<>> THEN AfterSending(client[c].req.op) ELSE "sending"
  OBVIOUS
<1>4. PICK todo : todo = Tail(client[c].todo)
  OBVIOUS
<1>5. PICK r : r = Sent(client[c], todo, p)
  OBVIOUS
<1>6. r = [pc |-> p, req |-> client[c].req, todo |-> todo, nb |-> client[c].nb, size |-> client[c].size,
           lines |-> client[c].lines]
  BY <1>1, <1>5, SentIs
<1>7. r \in Programs
  BY <1>2, <1>3, <1>4, <1>6, ProgramFacts DEF Programs, AfterSending
<1>8. (client' = Left(c) /\ Closed(c)) \/ client' = [client EXCEPT ![c] = r]
  BY <1>3, <1>4, <1>5, Zenon DEF SendTodo, Sent
<1> QED
  BY <1>1, <1>2, <1>3, <1>4, <1>6, <1>7, <1>8, Zenon

LEMMA TypesSendTodo ==
  ASSUME Types, NEW c \in Clients, SendTodo(c)
  PROVE  Types'
<1>0. /\ client[c].lines \in Nat /\ client[c].lines <= MaxLines[c] /\ client[c].req \in Commands /\ hist[c] \in Records
      /\ up[c] \in Seq(Octets) /\ Head(client[c].todo) \in Seq(Octets)
      /\ backlog \in Seq(Clients) /\ up \in [Clients -> Seq(Octets)] /\ down \in [Clients -> Seq(Octets)]
      /\ refused \subseteq Clients /\ hist \in [Clients -> Records] /\ blank \subseteq Clients
  BY ProgramFacts, SendTodoClient DEF Types, LinkTypes
<1>1. ClientTypes'
  <2>1. CASE client' = Left(c)
    BY <2>1, AtTypes DEF Left
  <2>2. ASSUME NEW r \in Programs,
               r = [pc |-> IF Tail(client[c].todo) = <<>> THEN AfterSending(client[c].req.op) ELSE "sending",
                    req |-> client[c].req, todo |-> Tail(client[c].todo),
                    nb |-> client[c].nb, size |-> client[c].size, lines |-> client[c].lines],
               client' = [client EXCEPT ![c] = r]
        PROVE  ClientTypes'
    <3>1. (r.pc = "sending" => r.todo # <<>>) /\ r.pc # "path" /\ r.lines = client[c].lines
      BY <2>2 DEF AfterSending
    <3> QED
      BY <1>0, <2>2, <3>1, ClientPut DEF Types
  <2> QED
    BY <2>1, <2>2, SendTodoClient
<1>2. up[c] \o Head(client[c].todo) \in Seq(Octets)
  BY <1>0
<1>3. up' \in [Clients -> Seq(Octets)] /\ refused' \subseteq Clients
  BY <1>0, <1>2 DEF SendTodo
<1>4. hist' \in [Clients -> Records]
  <2>1. Append(hist[c].sent, client[c].req) \in Seq(Commands)
    BY <1>0 DEF Records
  <2>2. CASE hist' = hist
    BY <1>0, <2>2
  <2>3. CASE hist' = [hist EXCEPT ![c].sent = Append(@, client[c].req), ![c].shown = <<>>]
    <3>1. PICK s : s = [hist EXCEPT ![c].sent = Append(@, client[c].req)]
      OBVIOUS
    <3>2. s \in [Clients -> Records]
      BY <1>0, <2>1, <3>1 DEF Records
    <3>3. hist' = [s EXCEPT ![c].shown = <<>>]
      BY <2>3, <3>1
    <3> QED
      BY <3>2, <3>3, OctetFacts DEF Records
  <2> QED
    BY <2>2, <2>3 DEF SendTodo
<1> QED
  BY <1>0, <1>1, <1>3, <1>4, ClientRest DEF SendTodo

\* What recv() gave the client is taken off the connection.
LEMMA GetsTypes ==
  ASSUME Types, NEW c \in Clients, NEW n \in Nat, NEW cut \in BOOLEAN,
         NEW o \in Arrived(down[c], n, cut), Gets(c, o)
  PROVE  /\ o \in Seq(Octets) /\ o # <<>> /\ Len(o) <= n
         /\ down' \in [Clients -> Seq(Octets)] /\ backlog' \in Seq(Clients) /\ up' \in [Clients -> Seq(Octets)]
         /\ refused' \subseteq Clients /\ blank' \subseteq Clients /\ ClientDoes(c)
<1>1. down[c] \in Seq(Octets)
  BY ProgramFacts
<1>2. o \in Seq(Octets) /\ o # <<>> /\ Len(o) <= n /\ Len(o) \in Nat
  BY <1>1, ArrivedFacts
<1>3. From(down[c], Len(o)) \in Seq(Octets)
  BY <1>1, <1>2, FromFacts
<1>4. down' \in [Clients -> Seq(Octets)]
  BY <1>3 DEF Gets, Types, LinkTypes
<1> QED
  BY <1>2, <1>4 DEF Gets, Types, LinkTypes

\* A number that was received is put where it belongs.
LEMMA NumberTypes ==
  ASSUME Types, NEW c \in Clients, NEW n \in Int, NEW p \in {"size", "answer", "path"}, p = "path" => n > 0,
         NEW r, (r = Counted(client[c], n, p) /\ p # "path") \/ r = Sized(client[c], n, p),
         client' = [client EXCEPT ![c] = r]
  PROVE  ClientTypes'
<1>1. client[c] \in Programs
  BY ProgramFacts
<1>2. CASE r = Counted(client[c], n, p) /\ p # "path"
  <2>1. r = [pc |-> p, req |-> client[c].req, todo |-> client[c].todo, nb |-> n, size |-> client[c].size,
             lines |-> client[c].lines]
    BY <1>1, <1>2, CountedIs
  <2>2. r \in Programs
    BY <2>1, ProgramFacts DEF Programs
  <2> QED
    BY <1>2, <2>1, <2>2, ClientPut, ProgramFacts DEF Types
<1>3. CASE r = Sized(client[c], n, p)
  <2>1. r = [pc |-> p, req |-> client[c].req, todo |-> client[c].todo, nb |-> client[c].nb, size |-> n,
             lines |-> client[c].lines]
    BY <1>1, <1>3, SizedIs
  <2>2. r \in Programs
    BY <2>1, ProgramFacts DEF Programs
  <2> QED
    BY <2>1, <2>2, ClientPut, ProgramFacts DEF Types
<1> QED
  BY <1>2, <1>3

\* GetCount, GetSize, GetPath, GetAnswer and GetEnds
LEMMA TypesReads ==
  ASSUME Types, NEW c \in Clients, ClientReads(c)
  PROVE  Types'
<1>0. /\ client[c].nb \in Int /\ client[c].size \in Int /\ hist[c] \in Records /\ hist \in [Clients -> Records]
      /\ 4 \in Nat /\ 1 \in Nat /\ FALSE \in BOOLEAN /\ Splits \in BOOLEAN
  BY ProgramFacts, ProtocolAssumption DEF Types, LinkTypes
<1>1. CASE GetCount(c)
  <2>1. PICK o \in Arrived(down[c], 4, FALSE) :
          Gets(c, o) /\ \E n \in Ints(o) : client' = [client EXCEPT ![c].nb = n, ![c].pc = NextPath(n)]
    BY <1>1 DEF GetCount
  <2>2. PICK n \in Int : client' = [client EXCEPT ![c].nb = n, ![c].pc = NextPath(n)]
    BY <1>0, <2>1, GetsTypes, IntsFacts
  <2>3. PICK p \in {"size", "answer"} : p = NextPath(n)
    BY DEF NextPath
  <2>4. client' = [client EXCEPT ![c] = Counted(client[c], n, p)]
    BY <2>2, <2>3, Zenon DEF Counted
  <2>5. ClientTypes'
    BY <2>4, NumberTypes
  <2> QED
    BY <1>0, <1>1, <2>1, <2>5, GetsTypes, ClientRest DEF GetCount
<1>2. CASE GetSize(c)
  <2>1. PICK o \in Arrived(down[c], 4, FALSE) :
          /\ Gets(c, o)
          /\ \E n \in Ints(o) : client' = IF n > 0 THEN [client EXCEPT ![c].size = n, ![c].pc = "path"] ELSE Left(c)
    BY <1>2 DEF GetSize
  <2>2. PICK n \in Int : client' = IF n > 0 THEN [client EXCEPT ![c].size = n, ![c].pc = "path"] ELSE Left(c)
    BY <1>0, <2>1, GetsTypes, IntsFacts
  <2>3. CASE n > 0
    <3>1. client' = [client EXCEPT ![c] = Sized(client[c], n, "path")]
      BY <2>2, <2>3, Zenon DEF Sized
    <3>2. ClientTypes'
      BY <2>3, <3>1, NumberTypes
    <3> QED
      BY <1>0, <1>2, <2>1, <3>2, GetsTypes, ClientRest DEF GetSize
  <2>4. CASE ~(n > 0)
    <3>1. ClientTypes'
      BY <2>2, <2>4, AtTypes DEF Left
    <3> QED
      BY <1>0, <1>2, <2>1, <3>1, GetsTypes, ClientRest DEF GetSize
  <2> QED
    BY <2>3, <2>4
<1>3. CASE GetPath(c)
  <2>0. client[c].size \in Nat
    BY <1>0, <1>3, ProgramFacts DEF GetPath
  <2>1. PICK o \in Arrived(down[c], client[c].size, Splits) :
          /\ Gets(c, o)
          /\ \/ client' = Left(c) /\ UNCHANGED hist
             \/ /\ client' = [client EXCEPT ![c].nb = @ - 1, ![c].pc = NextPath(client[c].nb - 1)]
                /\ hist' = [hist EXCEPT ![c].shown = Append(@, o)]
    BY <1>3 DEF GetPath
  <2>2. o \in Seq(Octets)
    BY <1>0, <2>0, <2>1, GetsTypes
  <2>3. hist' \in [Clients -> Records]
    <3>1. Append(hist[c].shown, o) \in Pieces
      BY <1>0, <2>2, AppendPiece DEF Records
    <3>2. CASE hist' = [hist EXCEPT ![c].shown = Append(@, o)]
      BY <1>0, <3>1, <3>2 DEF Records
    <3> QED
      BY <1>0, <2>1, <3>2
  <2>4. ClientTypes'
    <3>1. CASE client' = Left(c)
      BY <3>1, AtTypes DEF Left
    <3>2. CASE client' = [client EXCEPT ![c].nb = @ - 1, ![c].pc = NextPath(client[c].nb - 1)]
      <4>1. PICK n \in Int : n = client[c].nb - 1
        BY <1>0
      <4>2. PICK p \in {"size", "answer"} : p = NextPath(n)
        BY DEF NextPath
      <4>3. client' = [client EXCEPT ![c] = Counted(client[c], n, p)]
        BY <3>2, <4>1, <4>2, Zenon DEF Counted
      <4> QED
        BY <4>3, NumberTypes
    <3> QED
      BY <2>1, <3>1, <3>2
  <2> QED
    BY <1>0, <2>0, <2>1, <2>3, <2>4, GetsTypes, ClientRest
<1>4. CASE GetAnswer(c)
  <2>1. PICK o \in Arrived(down[c], 1, FALSE), x \in Outcomes :
          Gets(c, o) /\ hist' = [hist EXCEPT ![c].got = Append(@, x)]
    BY <1>4 DEF GetAnswer, Outcomes
  <2>2. hist' \in [Clients -> Records]
    <3>1. Append(hist[c].got, x) \in Seq(Outcomes)
      BY <1>0 DEF Records
    <3> QED
      BY <1>0, <2>1, <3>1 DEF Records
  <2>3. ClientTypes'
    BY <1>4, AtTypes DEF GetAnswer
  <2> QED
    BY <1>0, <2>1, <2>2, <2>3, GetsTypes, ClientRest
<1>5. CASE GetEnds(c)
  <2>1. ClientTypes'
    BY <1>5, AtTypes DEF GetEnds
  <2> QED
    BY <1>5, <2>1, ClientRest DEF GetEnds, Types, LinkTypes
<1> QED
  BY <1>1, <1>2, <1>3, <1>4, <1>5 DEF ClientReads

LEMMA TypesNext == Types /\ [Next]_vars => Types'
<1> SUFFICES ASSUME Types, [Next]_vars PROVE Types'
  OBVIOUS
<1>1. CASE MainExits \/ AcceptEnds \/ UNCHANGED vars
  BY <1>1 DEF MainExits, AcceptEnds, vars, accept, links, marks, Types, LinkTypes, ThreadTypes, ClientTypes
<1>2. CASE Accept \/ AcceptFails
  BY <1>2, TypesAccept
<1>3. ASSUME NEW t \in Clients, ThreadStep(t) PROVE Types'
  BY <1>3, TypesReceive, TypesDo, TypesSendOut DEF ThreadStep
<1>4. ASSUME NEW c \in Clients, ClientStep(c) PROVE Types'
  BY <1>4, TypesPrompt, TypesSendTodo, TypesReads DEF ClientStep
<1> QED
  BY <1>1, <1>2, <1>3, <1>4 DEF Next

\* The accept loop goes on or has ended.
ListensType == listens \in BOOLEAN

LEMMA ListensNext == ListensType /\ [Next]_vars => ListensType'
<1> SUFFICES ASSUME ListensType, [Next]_vars
             PROVE  UNCHANGED listens \/ listens' = FALSE
  BY DEF ListensType
<1>1. CASE Accept \/ AcceptFails \/ AcceptEnds
  BY <1>1, Zenon DEF Accept, AcceptFails, AcceptEnds
<1>2. CASE MainExits \/ UNCHANGED vars
  BY <1>2, Zenon DEF MainExits, vars, accept
<1>3. ASSUME NEW t \in Clients, ThreadStep(t) PROVE UNCHANGED listens
  BY <1>3, Zenon DEF ThreadStep, CopyInfos, RecvOp, RecvFlag, RecvSize, RecvPath, RecvEnds, Receives,
                     DoCommand, DoList, DoKill, Does, SendOut, accept
<1>4. ASSUME NEW c \in Clients, ClientStep(c) PROVE UNCHANGED listens
  BY <1>4, Zenon DEF ClientStep, ClientReads, ClientDoes, Connect, Type, TypeNothing, Leave, SendTodo,
                     Gets, GetCount, GetSize, GetPath, GetAnswer, GetEnds
<1> QED
  BY <1>1, <1>2, <1>3, <1>4, Zenon DEF Next

\* Every field of every thread, client and record of the history keeps its type; a client waits
\* for a path only when its size is positive.
THEOREM TypesHold == Spec => []Types
BY TypesInit, TypesNext, PTL DEF Spec

\* Whatever the clients type and whenever they leave, every octet on its way and every place of
\* a thread and of a client is what it can be, a thread and a client have something to send where
\* they send, and no client types more than its lines.
THEOREM TypeCorrect == Spec => []TypeOK
<1>1. Types /\ ListensType => TypeOK
  <2> SUFFICES ASSUME Types, ListensType PROVE TypeOK
    OBVIOUS
  <2>1. \A t \in Clients : /\ thread[t].pc \in {"off", "new", "op", "flag", "size", "path", "do", "send", "gone"}
                           /\ thread[t].serves \in Clients
    BY DEF Types, ThreadTypes, Threads
  <2>2. \A c \in Clients : /\ client[c].pc \in {"off", "typing", "sending", "count", "size", "path", "answer", "left"}
                           /\ client[c].lines \in 0 .. MaxLines[c]
    BY ProgramFacts DEF Programs
  <2> QED
    BY <2>1, <2>2 DEF Types, ThreadTypes, ClientTypes, LinkTypes, ListensType, TypeOK
<1>2. Init => ListensType
  BY DEF Init, ListensType
<1>3. Spec => []ListensType
  BY <1>2, ListensNext, PTL DEF Spec
<1> QED
  BY <1>1, <1>3, TypesHold, PTL

----------------------------------------------------------------------------
(* Octets that spell pieces *)

LEMMA SpellsEmpty ==
  ASSUME NEW p \in Pieces, NEW k \in 0 .. Len(p)
  PROVE  Spells(<<>>, p, k, k)
<1> DEFINE off == [i \in k .. k |-> 0]
<1>1. k \in Nat /\ Len(<<>>) = 0
  BY DEF Pieces
<1>2. off \in [k .. k -> 0 .. Len(<<>>)] /\ off[k] = 0 /\ \A i, h \in k .. k : off[i] <= off[h]
  BY <1>1
<1>3. \A i \in k .. k - 1 : FALSE
  BY <1>1
<1> HIDE DEF off
<1> QED
  BY <1>1, <1>2, <1>3 DEF Spells

LEMMA SpellsNone ==
  ASSUME NEW s \in Seq(Octets), NEW p \in Pieces, NEW k, Spells(s, p, k, k)
  PROVE  s = <<>>
<1>1. Len(s) = 0
  BY DEF Spells
<1> QED
  BY <1>1

LEMMA SpellsAppend ==
  ASSUME NEW s \in Seq(Octets), NEW p \in Pieces, NEW j, NEW k, Spells(s, p, j, k), k < Len(p)
  PROVE  Spells(s \o p[k + 1], p, j, k + 1)
<1>1. j \in 0 .. k /\ k \in 0 .. Len(p) /\ Len(p) \in Nat /\ Len(s) \in Nat
  BY DEF Spells, Pieces
<1>2. PICK off \in [j .. k -> 0 .. Len(s)] :
        /\ off[j] = 0 /\ off[k] = Len(s)
        /\ \A i, h \in j .. k : i <= h => off[i] <= off[h]
        /\ \A i \in j .. k - 1 : /\ off[i + 1] = off[i] + Len(p[i + 1])
                                 /\ \A m \in 1 .. Len(p[i + 1]) : s[off[i] + m] = p[i + 1][m]
  BY DEF Spells
<1>3. PICK x : x = p[k + 1]
  OBVIOUS
<1>4. x \in Seq(Octets) /\ Len(x) \in Nat
  BY <1>1, <1>3 DEF Pieces
<1>5. PICK z : z = s \o x
  OBVIOUS
<1>6. /\ z \in Seq(Octets) /\ Len(z) = Len(s) + Len(x)
      /\ \A m \in 1 .. Len(s) : z[m] = s[m]
      /\ \A m \in 1 .. Len(x) : z[Len(s) + m] = x[m]
  BY <1>4, <1>5
<1> DEFINE nxt == [i \in j .. k + 1 |-> IF i = k + 1 THEN Len(z) ELSE off[i]]
<1>7. nxt \in [j .. k + 1 -> 0 .. Len(z)]
  BY <1>1, <1>4, <1>6
<1>8. /\ nxt[k + 1] = Len(z)
      /\ \A i \in j .. k : nxt[i] = off[i] /\ off[i] \in 0 .. Len(s)
  BY <1>1
<1> HIDE DEF nxt
<1>9. ASSUME NEW i \in j .. k
      PROVE  nxt[i + 1] = nxt[i] + Len(p[i + 1]) /\ \A m \in 1 .. Len(p[i + 1]) : z[nxt[i] + m] = p[i + 1][m]
  <2>1. CASE i = k
    <3>1. nxt[i] = Len(s)
      BY <1>1, <1>2, <1>8, <2>1
    <3> QED
      BY <2>1, <1>3, <1>4, <1>6, <1>8, <3>1
  <2>2. CASE i # k
    <3>1. i \in j .. k - 1 /\ i + 1 \in j .. k
      BY <1>1, <2>2
    <3>2. /\ nxt[i + 1] = off[i + 1] /\ nxt[i] = off[i] /\ off[i] \in 0 .. Len(s) /\ off[i + 1] \in 0 .. Len(s)
          /\ off[i + 1] = off[i] + Len(p[i + 1])
      BY <1>2, <1>8, <3>1
    <3>3. ASSUME NEW m \in 1 .. Len(p[i + 1]) PROVE z[off[i] + m] = p[i + 1][m]
      <4>1. Len(p[i + 1]) \in Nat
        BY <1>1, <3>1 DEF Pieces
      <4>2. off[i] + m \in 1 .. Len(s)
        BY <1>1, <3>2, <4>1
      <4> QED
        BY <1>2, <1>6, <3>1, <4>2
    <3> QED
      BY <3>2, <3>3
  <2> QED
    BY <2>1, <2>2
<1>10. ASSUME NEW i \in j .. k + 1, NEW h \in j .. k + 1, i <= h PROVE nxt[i] <= nxt[h]
  <2>1. CASE h = k + 1
    BY <1>1, <1>4, <1>6, <1>7, <1>8, <2>1
  <2>2. CASE h # k + 1
    <3>1. i \in j .. k /\ h \in j .. k
      BY <1>1, <1>10, <2>2
    <3>2. nxt[i] = off[i] /\ nxt[h] = off[h] /\ off[i] <= off[h]
      BY <1>2, <1>8, <1>10, <3>1
    <3> QED
      BY <3>2
  <2> QED
    BY <2>1, <2>2
<1>11. k + 1 \in 0 .. Len(p) /\ j \in 0 .. k + 1 /\ (k + 1) - 1 = k /\ j \in j .. k
  BY <1>1
<1>12. \A i \in j .. (k + 1) - 1 : /\ nxt[i + 1] = nxt[i] + Len(p[i + 1])
                                   /\ \A m \in 1 .. Len(p[i + 1]) : z[nxt[i] + m] = p[i + 1][m]
  BY <1>9, <1>11
<1>13. nxt[j] = 0
  BY <1>2, <1>8, <1>11
<1>14. Spells(z, p, j, k + 1)
  BY <1>7, <1>8, <1>10, <1>11, <1>12, <1>13, Zenon DEF Spells
<1> QED
  BY <1>3, <1>5, <1>14

LEMMA SpellsFirst ==
  ASSUME NEW s \in Seq(Octets), NEW p \in Pieces, NEW j, NEW k, Spells(s, p, j, k), j < k
  PROVE  /\ p[j + 1] \in Seq(Octets) /\ Len(p[j + 1]) <= Len(s)
         /\ SubSeq(s, 1, Len(p[j + 1])) = p[j + 1]
         /\ Spells(From(s, Len(p[j + 1])), p, j + 1, k)
<1>1. j \in 0 .. k /\ k \in 0 .. Len(p) /\ Len(p) \in Nat /\ Len(s) \in Nat
  BY DEF Spells, Pieces
<1>2. PICK off \in [j .. k -> 0 .. Len(s)] :
        /\ off[j] = 0 /\ off[k] = Len(s)
        /\ \A i, h \in j .. k : i <= h => off[i] <= off[h]
        /\ \A i \in j .. k - 1 : /\ off[i + 1] = off[i] + Len(p[i + 1])
                                 /\ \A m \in 1 .. Len(p[i + 1]) : s[off[i] + m] = p[i + 1][m]
  BY DEF Spells
<1>3. PICK x : x = p[j + 1]
  OBVIOUS
<1>4. x \in Seq(Octets) /\ Len(x) \in Nat
  BY <1>1, <1>3 DEF Pieces
<1>5. j \in j .. k - 1 /\ j + 1 \in j .. k /\ j + 1 \in 0 .. k
  BY <1>1
<1>6. off[j + 1] = Len(x) /\ Len(x) \in 0 .. Len(s) /\ \A m \in 1 .. Len(x) : s[m] = x[m]
  <2>1. off[j + 1] = 0 + Len(x) /\ off[j + 1] \in 0 .. Len(s) /\ \A m \in 1 .. Len(x) : s[0 + m] = x[m]
    BY <1>2, <1>3, <1>5
  <2> QED
    BY <2>1, <1>4
<1>7. SubSeq(s, 1, Len(x)) = x
  BY <1>1, <1>4, <1>6
<1>8. PICK n \in 0 .. Len(s) : n = Len(x)
  BY <1>6
<1>9. PICK z : z = From(s, n)
  OBVIOUS
<1>10. z \in Seq(Octets) /\ Len(z) = Len(s) - n /\ \A m \in 1 .. Len(z) : z[m] = s[n + m]
  BY <1>1, <1>8, <1>9 DEF From
<1> DEFINE nxt == [i \in j + 1 .. k |-> off[i] - n]
<1>11. \A i \in j + 1 .. k : i \in j .. k /\ off[i] \in n .. Len(s) /\ nxt[i] = off[i] - n
  BY <1>1, <1>2, <1>5, <1>6, <1>8
<1>12. nxt \in [j + 1 .. k -> 0 .. Len(z)]
  BY <1>1, <1>10, <1>11
<1> HIDE DEF nxt
<1>13. nxt[j + 1] = 0 /\ nxt[k] = Len(z)
  BY <1>1, <1>2, <1>5, <1>6, <1>8, <1>10, <1>11
<1>14. \A i, h \in j + 1 .. k : i <= h => nxt[i] <= nxt[h]
  BY <1>2, <1>8, <1>11
<1>15. ASSUME NEW i \in j + 1 .. k - 1
       PROVE  nxt[i + 1] = nxt[i] + Len(p[i + 1]) /\ \A m \in 1 .. Len(p[i + 1]) : z[nxt[i] + m] = p[i + 1][m]
  <2>1. i \in j .. k - 1 /\ i \in j + 1 .. k /\ i + 1 \in j + 1 .. k /\ i + 1 \in 1 .. Len(p)
    BY <1>1
  <2>2. /\ nxt[i + 1] = off[i + 1] - n /\ nxt[i] = off[i] - n /\ off[i] \in n .. Len(s) /\ off[i + 1] \in n .. Len(s)
        /\ off[i + 1] = off[i] + Len(p[i + 1]) /\ Len(p[i + 1]) \in Nat
    BY <1>2, <1>11, <2>1 DEF Pieces
  <2>3. ASSUME NEW m \in 1 .. Len(p[i + 1]) PROVE z[nxt[i] + m] = p[i + 1][m]
    <3>1. PICK q \in Int : q = nxt[i] + m
      BY <1>8, <2>2
    <3>2. q \in 1 .. Len(z) /\ n + q = off[i] + m
      <4>1. PICK a \in Int, b \in Int : a = off[i] /\ b = off[i + 1]
        BY <2>2
      <4>2. PICK l \in Nat : l = Len(p[i + 1])
        BY <2>2
      <4>3. b = a + l /\ a >= n /\ b <= Len(s) /\ nxt[i] = a - n /\ m \in 1 .. l
        BY <1>8, <2>2, <4>1, <4>2
      <4>4. q = (a - n) + m
        BY <3>1, <4>3
      <4>5. q >= 1 /\ q <= Len(s) - n /\ n + q = a + m
        BY <1>1, <4>3, <4>4
      <4> QED
        BY <1>10, <4>1, <4>5
    <3>3. z[q] = s[off[i] + m]
      BY <1>10, <3>2
    <3> QED
      BY <1>2, <2>1, <3>1, <3>3
  <2> QED
    BY <1>8, <2>2, <2>3
<1>16. Spells(z, p, j + 1, k)
  BY <1>1, <1>5, <1>12, <1>13, <1>14, <1>15 DEF Spells
<1> QED
  BY <1>3, <1>4, <1>6, <1>7, <1>8, <1>9, <1>16

\* A recv() that asks for as many octets as the next piece has, and gets them, gets the piece.
LEMMA SpellsTake ==
  ASSUME NEW s \in Seq(Octets), NEW p \in Pieces, NEW j, NEW k, Spells(s, p, j, k),
         NEW n \in Nat, NEW cut \in BOOLEAN, NEW o \in Arrived(s, n, cut)
  PROVE  /\ j < k
         /\ Len(p[j + 1]) = n /\ (cut => Len(o) >= n) => o = p[j + 1] /\ Spells(From(s, Len(o)), p, j + 1, k)
<1>1. /\ o \in Seq(Octets) /\ Len(o) \in 1 .. Len(s) /\ Len(o) <= n /\ o = SubSeq(s, 1, Len(o)) /\ s # <<>>
      /\ (~cut => Len(o) = Least(n, Len(s)))
  BY ArrivedFacts
<1>2. j \in 0 .. k /\ k \in 0 .. Len(p)
  BY DEF Spells
<1>3. j < k
  BY <1>1, <1>2, SpellsNone
<1>4. ASSUME Len(p[j + 1]) = n, cut => Len(o) >= n
      PROVE  o = p[j + 1] /\ Spells(From(s, Len(o)), p, j + 1, k)
  <2>1. n <= Len(s) /\ SubSeq(s, 1, n) = p[j + 1] /\ Spells(From(s, n), p, j + 1, k)
    BY <1>3, <1>4, SpellsFirst
  <2>2. Len(o) = n
    <3>1. Len(o) >= n \/ Len(o) = Least(n, Len(s))
      BY <1>1, <1>4, Zenon
    <3> QED
      <4>1. Len(o) \in Nat /\ Len(s) \in Nat /\ Len(o) <= n /\ n <= Len(s)
        BY <1>1, <2>1
      <4> QED
        BY <3>1, <4>1 DEF Least
  <2> QED
    BY <1>1, <2>1, <2>2
<1> QED
  BY <1>3, <1>4

LEMMA IntsWhole ==
  ASSUME NEW n \in Nat, n < Len(Digits)
  PROVE  Ints(Int4(n)) = {n}
<1>1. Digits \in Seq(Octets) /\ \A i, j \in 1 .. Len(Digits) : Digits[i] = Digits[j] => i = j
  BY OctetFacts, ProtocolAssumption DEF IsInjective
<1>2. PICK o : o = Int4(n)
  OBVIOUS
<1>3. o \in Seq(Octets) /\ Len(o) = 4 /\ \A m : o = Int4(m) => Digits[n + 1] = Digits[m + 1]
  BY <1>2, Int4Facts DEF Int4
<1>4. SubSeq(o \o <<"0", "0", "0">>, 1, 4) = o
  <2>1. <<"0", "0", "0">> \in Seq(Octets)
    BY OctetFacts
  <2>2. PICK z : z = <<"0", "0", "0">>
    OBVIOUS
  <2>3. z \in Seq(Octets) /\ 1 \in 1 .. Len(o) /\ 4 \in 1 .. Len(o)
    BY <1>3, <2>1, <2>2
  <2>4. SubSeq(o \o z, 1, 4) = SubSeq(o, 1, 4)
    BY <1>3, <2>3, SubSeqOfConcat1
  <2>5. SubSeq(o, 1, 4) = o
    BY <1>3, SubSeqFull
  <2> QED
    BY <2>2, <2>4, <2>5
<1>5. {m \in 0 .. Len(Digits) - 1 : o = Int4(m)} = {n}
  <2>1. ASSUME NEW m \in 0 .. Len(Digits) - 1, o = Int4(m) PROVE m = n
    <3>1. m + 1 \in 1 .. Len(Digits) /\ n + 1 \in 1 .. Len(Digits) /\ Digits[n + 1] = Digits[m + 1]
      BY <1>1, <1>3, <2>1
    <3> QED
      BY <1>1, <3>1
  <2>2. n \in 0 .. Len(Digits) - 1
    BY <1>1
  <2> QED
    BY <1>2, <2>1, <2>2
<1>6. Ints(o) = {n}
  <2>1. {n} # {} /\ ~(Len(o) < 4)
    BY <1>3
  <2> QED
    BY <1>4, <1>5, <2>1, Zenon DEF Ints
<1> QED
  BY <1>2, <1>6

\* The pieces of a command, and the command put together from them
LEMMA RequestForms ==
  ASSUME NEW c \in Clients, NEW r \in Requests[c]
  PROVE  /\ r = [op |-> r.op, flag |-> r.flag, path |-> r.path] /\ Len(r.path) < Len(Digits)
         /\ Sends(r)[1] = <<r.op>>
         /\ \/ /\ r.op \in {"K", "E", "L"} /\ Sends(r) = <<<<r.op>>>>
               /\ r.flag = "-" /\ r.path = <<>>
            \/ /\ r.op \in {"S", "R"} /\ r.flag = "N" /\ Sends(r) = <<<<r.op>>, <<r.flag>>>>
               /\ r.path = <<>>
            \/ /\ r.op \in {"S", "R", "D"} /\ r.flag \in {"Y", "N"} /\ (r.op = "D" \/ r.flag = "Y")
               /\ Sends(r) = <<<<r.op>>, <<r.flag>>, Int4(Len(r.path)), r.path>>
<1>1. /\ r \in [op : {"S", "R", "D", "K", "E", "L"}, flag : {"Y", "N", "-"}, path : Seq(Chars)]
      /\ Len(r.path) < Len(Digits)
      /\ r.op \in {"S", "R", "D"} <=> r.flag # "-"
      /\ (r.op \in {"S", "R"} /\ r.flag = "Y") \/ r.op = "D" <=> r.path # <<>>
  BY ProtocolAssumption
<1>2. r = [op |-> r.op, flag |-> r.flag, path |-> r.path] /\ r.op \in {"S", "R", "D", "K", "E", "L"} /\ r.flag \in {"Y", "N", "-"}
  BY <1>1
<1>3. CASE r.op \in {"K", "E", "L"}
  BY <1>1, <1>2, <1>3 DEF Sends
<1>4. CASE r.op \in {"S", "R"} /\ r.flag = "N"
  BY <1>1, <1>2, <1>4 DEF Sends
<1>5. CASE r.op = "D" \/ (r.op \in {"S", "R"} /\ r.flag = "Y")
  BY <1>1, <1>2, <1>5 DEF Sends
<1> QED
  BY <1>1, <1>2, <1>3, <1>4, <1>5

----------------------------------------------------------------------------
(* What a step leaves alone *)

\* Nothing of the connection of d changes.
Untouched(d) ==
  /\ thread'[d] = thread[d] /\ client'[d] = client[d] /\ hist'[d] = hist[d]
  /\ up'[d] = up[d] /\ down'[d] = down[d]
  /\ (d \in hungup' <=> d \in hungup) /\ (d \in reset' <=> d \in reset)

LEMMA LinkStays ==
  ASSUME NEW d \in Clients, Link(d), Untouched(d), Living' => Living
  PROVE  Link(d)'
<1>1. Open(d)' => Open(d)
  BY DEF Open, Untouched
<1>2. Quiet(d)' <=> Quiet(d)
  BY DEF Quiet, Untouched
<1>3. Served(d)'
  BY <1>1 DEF Link, Served, Untouched
<1>4. Upward(d)'
  <2>1. Carried(d) => Carried(d)'
    <3>1. \A r, k : SentOf(d, r, k) => SentOf(d, r, k)'
      BY DEF SentOf, Untouched
    <3>2. \A r, m : ReceivedOf(d, r, m) => ReceivedOf(d, r, m)'
      BY DEF ReceivedOf, Untouched
    <3>3. \A p, m, k : Spells(up[d], p, m, k) => Spells(up'[d], p, m, k)
      BY DEF Untouched
    <3> QED
      BY <3>1, <3>2, <3>3, Zenon DEF Carried
  <2> QED
    BY <1>1, <1>2, <2>1 DEF Link, Upward, Untouched
<1>5. Silent(d) => Silent(d)'
  BY <1>1, <1>2 DEF Silent, Untouched
<1>6. Due(d) => Due(d)'
  <2>1. \A p, i, j : Moves(d, p, i, j) => Moves(d, p, i, j)'
    BY <1>1 DEF Moves, Untouched
  <2>2. \A paths, i : ReadOf(d, paths, i) => ReadOf(d, paths, i)'
    BY DEF ReadOf, Untouched
  <2> QED
    BY <1>1, <1>2, <2>1, <2>2 DEF Due, Untouched
<1> QED
  BY <1>3, <1>4, <1>5, <1>6 DEF Link, Downward, Untouched

LEMMA AcceptingStays ==
  ASSUME Accepting, UNCHANGED <<backlog, infos>>, backlog \in Seq(Clients),
         \A d \in Clients : /\ thread[d].pc = "off" => thread'[d].pc = "off" /\ (d \in hungup' <=> d \in hungup)
                            /\ thread'[d].pc = "new" => thread[d].pc = "new"
                            /\ client[d].pc # "off" => client'[d].pc # "off"
  PROVE  Accepting'
BY DEF Accepting

----------------------------------------------------------------------------
(* Prefixes and parts of sequences *)

LEMMA PrefixSame ==
  ASSUME NEW S, NEW s \in Seq(S)
  PROVE  IsPrefix(s, s) /\ IsPrefix(<<>>, s)
BY DEF IsPrefix

LEMMA PrefixFacts ==
  ASSUME NEW S, NEW s \in Seq(S), NEW t \in Seq(S), NEW x \in S
  PROVE  /\ IsPrefix(s, Append(s, x))
         /\ IsPrefix(s, t) => IsPrefix(s, Append(t, x))
         /\ Append(s, x) # s
<1>1. /\ Append(t, x) \in Seq(S) /\ Len(Append(t, x)) = Len(t) + 1 /\ \A i \in 1 .. Len(t) : Append(t, x)[i] = t[i]
      /\ Append(s, x) \in Seq(S) /\ Len(Append(s, x)) = Len(s) + 1 /\ \A i \in 1 .. Len(s) : Append(s, x)[i] = s[i]
  OBVIOUS
<1>2. PICK u \in Seq(S), v \in Seq(S) : u = Append(t, x) /\ v = Append(s, x)
  BY <1>1
<1>3. IsPrefix(s, v)
  BY <1>1, <1>2 DEF IsPrefix
<1>4. IsPrefix(s, t) => IsPrefix(s, u)
  BY <1>1, <1>2 DEF IsPrefix
<1> QED
  BY <1>1, <1>2, <1>3, <1>4 DEF IsPrefix

\* What is left of the pieces after the first k
LEMMA RestFacts ==
  ASSUME NEW p \in Pieces, NEW k \in Nat, k < Len(p)
  PROVE  /\ Head(SubSeq(p, k + 1, Len(p))) = p[k + 1] /\ p[k + 1] \in Seq(Octets)
         /\ Tail(SubSeq(p, k + 1, Len(p))) = SubSeq(p, k + 2, Len(p))
         /\ SubSeq(p, k + 2, Len(p)) = <<>> <=> k + 1 = Len(p)
         /\ SubSeq(p, 1, Len(p)) = p
<1>1. Len(p) \in Nat /\ k + 1 \in 1 .. Len(p) /\ Len(p) \in k + 1 .. Len(p) /\ p \in Seq(Seq(Octets)) /\ k + 1 + 1 = k + 2
  BY DEF Pieces
<1>2. /\ Head(SubSeq(p, k + 1, Len(p))) = p[k + 1]
      /\ Tail(SubSeq(p, k + 1, Len(p))) = SubSeq(p, (k + 1) + 1, Len(p))
  BY <1>1, HeadTailOfSubSeq, Zenon
<1>3. SubSeq(p, 1, Len(p)) = p
  BY <1>1, SubSeqFull, Zenon
<1>4. p[k + 1] \in Seq(Octets)
  BY <1>1
<1>5. SubSeq(p, k + 2, Len(p)) = <<>> <=> k + 1 = Len(p)
  <2>1. PICK a \in Nat : a = k + 2 /\ a \in 1 .. Len(p) + 1
    BY <1>1
  <2>2. a \in Int /\ Len(p) \in Int /\ \A i \in a .. Len(p) : p[i] \in Seq(Octets)
    BY <1>1, <2>1
  <2>3. PICK v : v = SubSeq(p, a, Len(p))
    OBVIOUS
  <2>4. v \in Seq(Seq(Octets)) /\ Len(v) = IF a <= Len(p) THEN Len(p) - a + 1 ELSE 0
    <3>1. /\ SubSeq(p, a, Len(p)) \in Seq(Seq(Octets))
          /\ Len(SubSeq(p, a, Len(p))) = IF a <= Len(p) THEN Len(p) - a + 1 ELSE 0
      BY <2>2, SubSeqProperties, ZenonT(60)
    <3> QED
      BY <2>3, <3>1, Zenon
  <2>5. v = <<>> <=> Len(v) = 0
    BY <2>4
  <2> QED
    BY <1>1, <2>1, <2>3, <2>4, <2>5
<1> QED
  BY <1>1, <1>2, <1>3, <1>4, <1>5, Zenon

----------------------------------------------------------------------------
(* A thread receives *)

LEMMA NotQuietDue ==
  ASSUME NEW c \in Clients, Link(c), Open(c), ~Quiet(c)
  PROVE  /\ client[c].pc = "left" \/ (Silent(c) /\ hist[c].got = hist[c].given
                                      /\ client[c].pc \in {"off", "typing", "sending", "count", "answer"})
         /\ Carried(c)
BY DEF Link, Upward, Downward, Silent, Due

LEMMA ThreadOpen ==
  ASSUME NEW c \in Clients, Link(c), Living, thread[c].pc \notin {"off", "gone"}
  PROVE  Open(c) /\ client[c].pc # "off" /\ thread[c].serves = c
BY DEF Link, Served, Open

\* A thread that gets octets is in the middle of a command.
LEMMA Receiving ==
  ASSUME Types, NEW c \in Clients, Link(c), NEW n \in Nat, NEW cut \in BOOLEAN, NEW o \in FromClient(c, n, cut)
  PROVE  /\ Open(c) /\ o \in Arrived(up[c], n, cut) /\ c \notin reset /\ up[c] # <<>>
         /\ \E r \in Requests[c], k \in Nat, m \in Nat :
              /\ k \in 1 .. Len(Sends(r)) /\ m < k /\ SentOf(c, r, k) /\ ReceivedOf(c, r, m)
              /\ Spells(up[c], Sends(r), m, k)
              /\ Len(Sends(r)[m + 1]) = n /\ (cut => Len(o) >= n)
                 => o = Sends(r)[m + 1] /\ Spells(From(up[c], Len(o)), Sends(r), m + 1, k)
<1>1. thread[c].serves = c
  BY DEF Link, Served
<1>2. Open(c) /\ o \in Arrived(up[c], n, cut)
  BY <1>1 DEF FromClient, Open
<1>3. up[c] \in Seq(Octets)
  BY ProgramFacts
<1>4. up[c] # <<>>
  BY <1>2, <1>3, ArrivedFacts
<1>5. c \notin reset
  BY <1>2, <1>4 DEF Link, Served
<1>6. Carried(c)
  BY <1>2, <1>4 DEF Link, Upward, Quiet
<1>7. PICK r \in Requests[c] : \E k \in 1 .. Len(Sends(r)) : \E m \in 0 .. k :
        SentOf(c, r, k) /\ ReceivedOf(c, r, m) /\ Spells(up[c], Sends(r), m, k)
  BY <1>6 DEF Carried
<1>8. PICK k \in 1 .. Len(Sends(r)) : \E m \in 0 .. k :
        SentOf(c, r, k) /\ ReceivedOf(c, r, m) /\ Spells(up[c], Sends(r), m, k)
  BY <1>7
<1>9. PICK m \in 0 .. k :
        SentOf(c, r, k) /\ ReceivedOf(c, r, m) /\ Spells(up[c], Sends(r), m, k)
  BY <1>8
<1>10. Sends(r) \in Pieces
  BY RequestFacts
<1>11. /\ m < k
       /\ Len(Sends(r)[m + 1]) = n /\ (cut => Len(o) >= n)
          => o = Sends(r)[m + 1] /\ Spells(From(up[c], Len(o)), Sends(r), m + 1, k)
  BY <1>2, <1>3, <1>9, <1>10, SpellsTake
<1> QED
  BY <1>2, <1>4, <1>5, <1>8, <1>9, <1>11

LEMMA Received ==
  ASSUME Types, NEW c \in Clients, Link(c), NEW o, Receives(c, o), UNCHANGED hungup,
         Open(c), c \notin reset, up[c] # <<>>, thread[c].pc \in {"op", "flag", "size", "path"},
         NEW r \in Requests[c], NEW k \in Nat, NEW m \in Nat, k \in 1 .. Len(Sends(r)), m < k,
         SentOf(c, r, k), Spells(up[c], Sends(r), m, k), Spells(From(up[c], Len(o)), Sends(r), m + 1, k),
         ReceivedOf(c, r, m + 1)', thread'[c].serves = c, thread'[c].pc \in {"flag", "size", "path", "do"}
  PROVE  Link(c)'
<1>1. /\ up'[c] = From(up[c], Len(o))
      /\ UNCHANGED <<proc, client, down, hungup, reset, hist>>
  <2>1. thread[c].serves = c
    BY DEF Link, Served
  <2> QED
    BY <2>1 DEF Receives, Types, LinkTypes
<1>2. Open(c)'
  BY <1>1 DEF Open, Living
<1>3. Served(c)'
  BY <1>1, <1>2 DEF Link, Served, Open
<1>4. Carried(c)'
  <2>1. SentOf(c, r, k)'
    BY <1>1 DEF SentOf
  <2>2. m + 1 \in 0 .. k
    OBVIOUS
  <2>3. Spells(up'[c], Sends(r), m + 1, k)
    BY <1>1
  <2> QED
    BY <2>1, <2>2, <2>3, Zenon DEF Carried
<1>5. Upward(c)'
  BY <1>1, <1>4 DEF Link, Upward
<1>6. ~Quiet(c)
  BY DEF Quiet
<1>7. Downward(c)'
  <2>1. client[c].pc = "left" \/ (Silent(c) /\ hist[c].got = hist[c].given
                                  /\ client[c].pc \in {"off", "typing", "sending", "count", "answer"})
    BY <1>6, NotQuietDue
  <2>2. Silent(c) /\ hist[c].got = hist[c].given /\ client[c].pc \in {"off", "typing", "sending", "count", "answer"}
        => Silent(c)'
    BY <1>1 DEF Silent
  <2> QED
    BY <1>1, <2>1, <2>2 DEF Link, Downward
<1> QED
  BY <1>3, <1>5, <1>7 DEF Link

Asked(r, q, p) == [r EXCEPT !.req = q, !.pc = p]

LEMMA AskedIs ==
  ASSUME NEW r \in Threads, NEW q, NEW p
  PROVE  Asked(r, q, p) = [pc |-> p, serves |-> r.serves, req |-> q, size |-> r.size, out |-> r.out]
<1>1. PICK s : s = [r EXCEPT !.req = q]
  OBVIOUS
<1>2. s = [pc |-> r.pc, serves |-> r.serves, req |-> q, size |-> r.size, out |-> r.out]
  BY <1>1 DEF Threads
<1>3. [s EXCEPT !.pc = p] = [pc |-> p, serves |-> r.serves, req |-> q, size |-> r.size, out |-> r.out]
  BY <1>2
<1> QED
  BY <1>1, <1>3 DEF Asked

Measured(r, n, p) == [r EXCEPT !.size = n, !.pc = p]

LEMMA MeasuredIs ==
  ASSUME NEW r \in Threads, NEW n, NEW p
  PROVE  Measured(r, n, p) = [pc |-> p, serves |-> r.serves, req |-> r.req, size |-> n, out |-> r.out]
<1>1. PICK s : s = [r EXCEPT !.size = n]
  OBVIOUS
<1>2. s = [pc |-> r.pc, serves |-> r.serves, req |-> r.req, size |-> n, out |-> r.out]
  BY <1>1 DEF Threads
<1>3. [s EXCEPT !.pc = p] = [pc |-> p, serves |-> r.serves, req |-> r.req, size |-> n, out |-> r.out]
  BY <1>2
<1> QED
  BY <1>1, <1>3 DEF Measured

Serving(r, c, p) == [r EXCEPT !.pc = p, !.serves = c]

LEMMA ServingIs ==
  ASSUME NEW r \in Threads, NEW c, NEW p
  PROVE  Serving(r, c, p) = [pc |-> p, serves |-> c, req |-> r.req, size |-> r.size, out |-> r.out]
<1>1. PICK s : s = [r EXCEPT !.pc = p]
  OBVIOUS
<1>2. s = [pc |-> p, serves |-> r.serves, req |-> r.req, size |-> r.size, out |-> r.out]
  BY <1>1 DEF Threads
<1>3. [s EXCEPT !.serves = c] = [pc |-> p, serves |-> c, req |-> r.req, size |-> r.size, out |-> r.out]
  BY <1>2
<1> QED
  BY <1>1, <1>3 DEF Serving

\* The same where recv() returns all it was asked for, if it is there
LEMMA ReceivingWhole ==
  ASSUME Types, NEW c \in Clients, Link(c), NEW n \in Nat, NEW o \in FromClient(c, n, FALSE)
  PROVE  \E r \in Requests[c], k \in Nat, m \in Nat :
           /\ k \in 1 .. Len(Sends(r)) /\ m < k /\ SentOf(c, r, k) /\ ReceivedOf(c, r, m)
           /\ Spells(up[c], Sends(r), m, k)
           /\ Len(Sends(r)[m + 1]) = n => o = Sends(r)[m + 1] /\ Spells(From(up[c], Len(o)), Sends(r), m + 1, k)
<1>1. PICK cut \in BOOLEAN : ~cut /\ cut = FALSE
  OBVIOUS
<1>2. o \in FromClient(c, n, cut)
  BY <1>1
<1>3. PICK r \in Requests[c], k \in Nat, m \in Nat :
        /\ k \in 1 .. Len(Sends(r)) /\ m < k /\ SentOf(c, r, k) /\ ReceivedOf(c, r, m)
        /\ Spells(up[c], Sends(r), m, k)
        /\ Len(Sends(r)[m + 1]) = n /\ (cut => Len(o) >= n)
           => o = Sends(r)[m + 1] /\ Spells(From(up[c], Len(o)), Sends(r), m + 1, k)
  BY <1>2, Receiving
<1> QED
  BY <1>1, <1>3, Zenon

LEMMA RecvOpLink ==
  ASSUME Types, NEW c \in Clients, Link(c), RecvOp(c)
  PROVE  Link(c)'
<1>1. PICK o \in FromClient(c, 1, FALSE) :
        /\ Receives(c, o)
        /\ thread' = [thread EXCEPT ![c].req = [None EXCEPT !.op = o[1]],
                                    ![c].pc = IF o[1] \in {"S", "R", "D"} THEN "flag"
                                              ELSE IF o[1] \in {"K", "E", "L"} THEN "do" ELSE "op"]
  BY DEF RecvOp
<1>2. 1 \in Nat /\ FALSE \in BOOLEAN /\ thread[c].pc = "op" /\ UNCHANGED hungup
  BY DEF RecvOp
<1>3. PICK r \in Requests[c], k \in Nat, m \in Nat :
        /\ k \in 1 .. Len(Sends(r)) /\ m < k /\ SentOf(c, r, k) /\ ReceivedOf(c, r, m)
        /\ Spells(up[c], Sends(r), m, k)
        /\ Len(Sends(r)[m + 1]) = 1 => o = Sends(r)[m + 1] /\ Spells(From(up[c], Len(o)), Sends(r), m + 1, k)
  BY <1>2, ReceivingWhole
<1>4. m = 0
  BY <1>2, <1>3 DEF ReceivedOf
<1>5. o = <<r.op>> /\ Spells(From(up[c], Len(o)), Sends(r), m + 1, k)
  <2>1. Sends(r)[m + 1] = <<r.op>> /\ Len(<<r.op>>) = 1
    BY <1>4, RequestForms
  <2> QED
    BY <1>3, <2>1
<1>6. PICK p : p = IF r.op \in {"S", "R", "D"} THEN "flag" ELSE IF r.op \in {"K", "E", "L"} THEN "do" ELSE "op"
  OBVIOUS
<1>7. thread[c] \in Threads /\ thread[c].serves = c
  BY ProgramFacts DEF Link, Served
<1>8. thread'[c] = [pc |-> p, serves |-> c, req |-> [None EXCEPT !.op = r.op], size |-> thread[c].size, out |-> thread[c].out]
  <2>1. PICK q : q = [None EXCEPT !.op = r.op]
    OBVIOUS
  <2>2. o[1] = r.op
    BY <1>5
  <2>3. thread' = [thread EXCEPT ![c] = Asked(thread[c], q, p)]
    BY <1>1, <1>6, <2>1, <2>2, Zenon DEF Asked
  <2>4. Asked(thread[c], q, p) = [pc |-> p, serves |-> c, req |-> q, size |-> thread[c].size, out |-> thread[c].out]
    BY <1>7, AskedIs
  <2>5. thread'[c] = Asked(thread[c], q, p)
    BY <2>3 DEF Types, ThreadTypes
  <2> QED
    BY <2>1, <2>4, <2>5
<1>9. ReceivedOf(c, r, m + 1)' /\ thread'[c].serves = c /\ thread'[c].pc \in {"flag", "size", "path", "do"}
  <2>1. CASE r.op \in {"K", "E", "L"}
    <3>1. /\ r = [op |-> r.op, flag |-> "-", path |-> <<>>] /\ Len(Sends(r)) = 1 /\ p = "do"
      BY <1>6, <2>1, RequestForms
    <3>2. [None EXCEPT !.op = r.op] = r
      BY <3>1 DEF None
    <3> QED
      BY <1>4, <1>8, <3>1, <3>2 DEF ReceivedOf
  <2>2. CASE r.op \in {"S", "R", "D"}
    BY <1>4, <1>6, <1>8, <2>2 DEF ReceivedOf
  <2> QED
    BY <2>1, <2>2, RequestForms
<1> QED
  BY <1>1, <1>2, <1>3, <1>5, <1>9, Receiving, Received

LEMMA RecvFlagLink ==
  ASSUME Types, NEW c \in Clients, Link(c), RecvFlag(c)
  PROVE  Link(c)'
<1>1. PICK o \in FromClient(c, 1, FALSE) :
        /\ Receives(c, o)
        /\ thread' = [thread EXCEPT ![c].req.flag = IF o = <<"Y">> THEN "Y" ELSE "N",
                                    ![c].pc = AfterFlag(thread[c].req.op, IF o = <<"Y">> THEN "Y" ELSE "N")]
  BY DEF RecvFlag
<1>2. 1 \in Nat /\ FALSE \in BOOLEAN /\ thread[c].pc = "flag" /\ UNCHANGED hungup
  BY DEF RecvFlag
<1>3. PICK r \in Requests[c], k \in Nat, m \in Nat :
        /\ k \in 1 .. Len(Sends(r)) /\ m < k /\ SentOf(c, r, k) /\ ReceivedOf(c, r, m)
        /\ Spells(up[c], Sends(r), m, k)
        /\ Len(Sends(r)[m + 1]) = 1 => o = Sends(r)[m + 1] /\ Spells(From(up[c], Len(o)), Sends(r), m + 1, k)
  BY <1>2, ReceivingWhole
<1>4. m = 1 /\ thread[c].req = [None EXCEPT !.op = r.op] /\ r.op \in {"S", "R", "D"}
  BY <1>2, <1>3 DEF ReceivedOf
<1>5. o = <<r.flag>> /\ r.flag \in {"Y", "N"} /\ Spells(From(up[c], Len(o)), Sends(r), m + 1, k)
  <2>1. Sends(r)[m + 1] = <<r.flag>> /\ Len(<<r.flag>>) = 1 /\ r.flag \in {"Y", "N"}
    BY <1>4, RequestForms
  <2> QED
    BY <1>3, <2>1
<1>6. PICK p : p = AfterFlag(r.op, r.flag)
  OBVIOUS
<1>7. thread[c] \in Threads /\ thread[c].serves = c
  BY ProgramFacts DEF Link, Served
<1>8. thread'[c] = [pc |-> p, serves |-> c, req |-> [r EXCEPT !.path = <<>>], size |-> thread[c].size, out |-> thread[c].out]
  <2>1. PICK q : q = [thread[c].req EXCEPT !.flag = r.flag]
    OBVIOUS
  <2>2. q = [r EXCEPT !.path = <<>>]
    <3>1. r = [op |-> r.op, flag |-> r.flag, path |-> r.path]
      BY RequestForms
    <3> QED
      BY <1>4, <2>1, <3>1 DEF None
  <2>3. (IF o = <<"Y">> THEN "Y" ELSE "N") = r.flag /\ thread[c].req.op = r.op
    <3>1. thread[c].req.op = r.op
      BY <1>4 DEF None
    <3> QED
      BY <1>5, <3>1
  <2>4. thread' = [thread EXCEPT ![c] = [[thread[c] EXCEPT !.req.flag = r.flag] EXCEPT !.pc = p]]
    BY <1>1, <1>6, <2>3, Zenon
  <2>5. [thread[c] EXCEPT !.req.flag = r.flag] = [thread[c] EXCEPT !.req = q]
    BY <2>1
  <2>6. thread' = [thread EXCEPT ![c] = Asked(thread[c], q, p)]
    BY <2>4, <2>5 DEF Asked
  <2>7. Asked(thread[c], q, p) = [pc |-> p, serves |-> c, req |-> q, size |-> thread[c].size, out |-> thread[c].out]
    BY <1>7, AskedIs
  <2>8. thread'[c] = Asked(thread[c], q, p)
    BY <2>6 DEF Types, ThreadTypes
  <2> QED
    BY <2>2, <2>7, <2>8
<1>9. ReceivedOf(c, r, m + 1)' /\ thread'[c].serves = c /\ thread'[c].pc \in {"flag", "size", "path", "do"}
  <2>1. CASE r.op \in {"S", "R"} /\ r.flag = "N"
    <3>1. r = [op |-> r.op, flag |-> r.flag, path |-> <<>>] /\ Len(Sends(r)) = 2
      BY <2>1, RequestForms
    <3>2. [r EXCEPT !.path = <<>>] = r /\ p = "do"
      BY <1>6, <2>1, <3>1 DEF AfterFlag
    <3> QED
      BY <1>4, <1>8, <3>1, <3>2 DEF ReceivedOf
  <2>2. CASE r.op = "D" \/ r.flag = "Y"
    <3>1. Len(Sends(r)) = 4 /\ p = "size"
      BY <1>4, <1>6, <2>2, RequestForms DEF AfterFlag
    <3> QED
      BY <1>4, <1>8, <3>1 DEF ReceivedOf
  <2> QED
    BY <1>4, <1>5, <2>1, <2>2
<1> QED
  BY <1>1, <1>2, <1>3, <1>5, <1>9, Receiving, Received

LEMMA RecvSizeLink ==
  ASSUME Types, NEW c \in Clients, Link(c), RecvSize(c)
  PROVE  Link(c)'
<1>1. PICK o \in FromClient(c, 4, FALSE) :
        /\ Receives(c, o)
        /\ \E n \in Ints(o) : thread' = [thread EXCEPT ![c].size = n, ![c].pc = "path"]
  BY DEF RecvSize
<1>2. 4 \in Nat /\ FALSE \in BOOLEAN /\ thread[c].pc = "size" /\ UNCHANGED hungup
  BY DEF RecvSize
<1>3. PICK r \in Requests[c], k \in Nat, m \in Nat :
        /\ k \in 1 .. Len(Sends(r)) /\ m < k /\ SentOf(c, r, k) /\ ReceivedOf(c, r, m)
        /\ Spells(up[c], Sends(r), m, k)
        /\ Len(Sends(r)[m + 1]) = 4 => o = Sends(r)[m + 1] /\ Spells(From(up[c], Len(o)), Sends(r), m + 1, k)
  BY <1>2, ReceivingWhole
<1>4. m = 2 /\ thread[c].req = [r EXCEPT !.path = <<>>] /\ Len(Sends(r)) = 4
  BY <1>2, <1>3 DEF ReceivedOf
<1>5. Len(r.path) \in Nat /\ Len(r.path) < Len(Digits)
  BY RequestFacts, RequestForms
<1>6. o = Int4(Len(r.path)) /\ Spells(From(up[c], Len(o)), Sends(r), m + 1, k)
  <2>1. Sends(r)[m + 1] = Int4(Len(r.path))
    <3>1. Sends(r) = <<<<r.op>>, <<r.flag>>, Int4(Len(r.path)), r.path>>
      BY <1>4, RequestForms
    <3>2. \A a, b, l, d : <<a, b, l, d>>[3] = l
      OBVIOUS
    <3> QED
      BY <1>4, <3>1, <3>2
  <2>2. Len(Int4(Len(r.path))) = 4
    BY <1>5, Int4Facts
  <2> QED
    BY <1>3, <2>1, <2>2
<1>7. thread' = [thread EXCEPT ![c].size = Len(r.path), ![c].pc = "path"]
  <2>1. Ints(o) = {Len(r.path)}
    BY <1>5, <1>6, IntsWhole
  <2> QED
    BY <1>1, <2>1, Zenon
<1>8. thread'[c] = [pc |-> "path", serves |-> c, req |-> thread[c].req, size |-> Len(r.path), out |-> thread[c].out]
  <2>1. thread[c] \in Threads /\ thread[c].serves = c
    BY ProgramFacts DEF Link, Served
  <2>2. thread' = [thread EXCEPT ![c] = Measured(thread[c], Len(r.path), "path")]
    BY <1>7, Zenon DEF Measured
  <2>3. thread'[c] = Measured(thread[c], Len(r.path), "path")
    BY <2>2 DEF Types, ThreadTypes
  <2> QED
    BY <2>1, <2>3, MeasuredIs
<1>9. ReceivedOf(c, r, m + 1)' /\ thread'[c].serves = c /\ thread'[c].pc \in {"flag", "size", "path", "do"}
  BY <1>4, <1>8 DEF ReceivedOf
<1> QED
  BY <1>1, <1>2, <1>3, <1>6, <1>9, Receiving, Received

\* The daemon closes the connection of a thread.
LEMMA CloseLink ==
  ASSUME Types, NEW c \in Clients, Link(c), CloseClient(c), thread[c].pc \notin {"off", "gone"}, Living,
         UNCHANGED <<proc, client, down, reset, hist>>
  PROVE  Link(c)'
<1>1. thread[c] \in Threads /\ thread[c].serves = c /\ client[c].pc # "off"
  BY ProgramFacts, ThreadOpen
<1>2. c \in hungup' /\ thread'[c].pc = "gone" /\ thread'[c].serves = c
  BY <1>1 DEF CloseClient, Types, ThreadTypes, Threads
<1>3. ~Open(c)'
  BY <1>2 DEF Open
<1>4. Served(c)'
  BY <1>1, <1>2, <1>3 DEF Link, Served
<1>5. Silent(c) => Silent(c)'
  BY <1>3 DEF Silent
<1>6. Due(c) => Due(c)'
  <2>1. \A p, i, j : Moves(c, p, i, j) => Moves(c, p, i, j)'
    BY <1>3 DEF Moves
  <2>2. \A paths, i : ReadOf(c, paths, i) => ReadOf(c, paths, i)'
    BY DEF ReadOf
  <2> QED
    BY <1>3, <2>1, <2>2 DEF Due
<1> QED
  BY <1>3, <1>4, <1>5, <1>6 DEF Link, Upward, Downward

LEMMA RecvPathLink ==
  ASSUME Types, NEW c \in Clients, Link(c), RecvPath(c)
  PROVE  Link(c)'
<1>1. PICK o \in FromClient(c, thread[c].size, Splits) :
        /\ Receives(c, o)
        /\ \/ CloseClient(c)
           \/ /\ ~(Len(o) < thread[c].size) /\ UNCHANGED hungup
              /\ thread' = [thread EXCEPT ![c].req.path = o, ![c].pc = "do"]
  BY DEF RecvPath
<1>2. thread[c].size \in Nat /\ Splits \in BOOLEAN /\ thread[c].pc = "path"
  BY ProgramFacts, ProtocolAssumption DEF RecvPath, Threads
<1>3. Open(c) /\ o \in Arrived(up[c], thread[c].size, Splits) /\ up[c] \in Seq(Octets)
  BY <1>2, Receiving, ProgramFacts
<1>4. CASE CloseClient(c)
  BY <1>1, <1>2, <1>3, <1>4, CloseLink DEF Receives, Open
<1>5. CASE /\ ~(Len(o) < thread[c].size) /\ UNCHANGED hungup
           /\ thread' = [thread EXCEPT ![c].req.path = o, ![c].pc = "do"]
  <2>1. Len(o) >= thread[c].size
    <3>1. Len(o) \in Nat
      BY <1>2, <1>3, ArrivedFacts
    <3> QED
      BY <1>2, <1>5, <3>1
  <2>2. PICK r \in Requests[c], k \in Nat, m \in Nat :
          /\ k \in 1 .. Len(Sends(r)) /\ m < k /\ SentOf(c, r, k) /\ ReceivedOf(c, r, m)
          /\ Spells(up[c], Sends(r), m, k)
          /\ Len(Sends(r)[m + 1]) = thread[c].size
             => o = Sends(r)[m + 1] /\ Spells(From(up[c], Len(o)), Sends(r), m + 1, k)
    BY <1>2, <2>1, Receiving
  <2>3. m = 3 /\ thread[c].req = [r EXCEPT !.path = <<>>] /\ Len(Sends(r)) = 4 /\ thread[c].size = Len(r.path)
    BY <1>2, <2>2 DEF ReceivedOf
  <2>4. o = r.path /\ Spells(From(up[c], Len(o)), Sends(r), m + 1, k)
    <3>1. Sends(r)[m + 1] = r.path
      BY <2>3, RequestForms
    <3> QED
      BY <2>2, <2>3, <3>1
  <2>5. thread[c] \in Threads /\ thread[c].serves = c
    BY ProgramFacts DEF Link, Served
  <2>6. thread'[c] = [pc |-> "do", serves |-> c, req |-> r, size |-> thread[c].size, out |-> thread[c].out]
    <3>1. PICK q : q = [thread[c].req EXCEPT !.path = r.path]
      OBVIOUS
    <3>2. q = r
      <4>1. r = [op |-> r.op, flag |-> r.flag, path |-> r.path]
        BY RequestForms
      <4> QED
        BY <2>3, <3>1, <4>1
    <3>3. thread' = [thread EXCEPT ![c] = [[thread[c] EXCEPT !.req.path = r.path] EXCEPT !.pc = "do"]]
      BY <1>5, <2>4, Zenon
    <3>4. [thread[c] EXCEPT !.req.path = r.path] = [thread[c] EXCEPT !.req = q]
      BY <3>1
    <3>5. thread' = [thread EXCEPT ![c] = Asked(thread[c], q, "do")]
      BY <3>3, <3>4 DEF Asked
    <3>6. thread'[c] = Asked(thread[c], q, "do")
      BY <3>5 DEF Types, ThreadTypes
    <3> QED
      BY <2>5, <3>2, <3>6, AskedIs
  <2>7. ReceivedOf(c, r, m + 1)' /\ thread'[c].serves = c /\ thread'[c].pc \in {"flag", "size", "path", "do"}
    BY <2>3, <2>6 DEF ReceivedOf
  <2> QED
    BY <1>1, <1>2, <1>5, <2>2, <2>4, <2>7, Receiving, Received
<1> QED
  BY <1>1, <1>4, <1>5

LEMMA RecvEndsLink ==
  ASSUME Types, NEW c \in Clients, Link(c), RecvEnds(c)
  PROVE  Link(c)'
BY CloseLink DEF RecvEnds

LEMMA CopyInfosLink ==
  ASSUME Types, NEW c \in Clients, Link(c), Accepting, CopyInfos(c)
  PROVE  Link(c)' /\ thread'[c].pc = "op"
<1>1. thread[c].pc = "new" /\ infos = {c} /\ thread' = [thread EXCEPT ![c].pc = "op", ![c].serves = c]
  BY DEF CopyInfos, Accepting
<1>2. Open(c) /\ client[c].pc # "off" /\ UNCHANGED <<proc, client, up, down, hungup, reset, hist>>
  BY <1>1, ThreadOpen DEF CopyInfos, links
<1>3. thread[c] \in Threads
  BY ProgramFacts
<1>4. thread'[c] = [pc |-> "op", serves |-> c, req |-> thread[c].req, size |-> thread[c].size, out |-> thread[c].out]
  <2>1. thread' = [thread EXCEPT ![c] = Serving(thread[c], c, "op")]
    BY <1>1, Zenon DEF Serving
  <2>2. thread'[c] = Serving(thread[c], c, "op")
    BY <2>1 DEF Types, ThreadTypes
  <2> QED
    BY <1>3, <2>2, ServingIs
<1>5. Served(c)'
  BY <1>1, <1>2, <1>4 DEF Link, Served, Open
<1>6. Open(c)' /\ (Quiet(c) => Quiet(c)')
  BY <1>1, <1>2, <1>4 DEF Open, Living, Quiet
<1>7. Carried(c) => Carried(c)'
  <2>1. \A r, k : SentOf(c, r, k) => SentOf(c, r, k)'
    BY <1>2 DEF SentOf
  <2>2. \A r, m : ReceivedOf(c, r, m) => ReceivedOf(c, r, m)'
    BY <1>1, <1>4 DEF ReceivedOf
  <2>3. \A p, m, k : Spells(up[c], p, m, k) => Spells(up'[c], p, m, k)
    BY <1>2
  <2> QED
    BY <2>1, <2>2, <2>3, Zenon DEF Carried
<1>8. Upward(c)'
  BY <1>2, <1>6, <1>7 DEF Link, Upward
<1>9. ~Due(c)
  BY <1>1, <1>2 DEF Due, Moves
<1>10. Silent(c) => Silent(c)'
  BY <1>2, <1>4, <1>6 DEF Silent
<1>11. Downward(c)'
  BY <1>2, <1>9, <1>10 DEF Link, Downward
<1> QED
  BY <1>4, <1>5, <1>8, <1>11 DEF Link

----------------------------------------------------------------------------
(* A thread does a command *)

\* The command that a thread does is the one its client sent last, and nothing is on its way.
LEMMA Doable ==
  ASSUME Types, NEW c \in Clients, Link(c), Living, thread[c].pc = "do"
  PROVE  /\ Open(c) /\ c \notin reset /\ thread[c].serves = c /\ thread[c].req \in Requests[c] /\ up[c] = <<>>
         /\ hist[c].sent = Append(hist[c].done, thread[c].req) /\ hist[c].shown = <<>>
         /\ client[c].pc \in {AfterSending(thread[c].req.op), "left"}
         /\ client[c].pc # "left" => down[c] = <<>> /\ hist[c].got = hist[c].given
<1>1. Open(c) /\ thread[c].serves = c
  BY ThreadOpen
<1>2. c \notin reset
  BY <1>1 DEF Link, Served
<1>3. ~Quiet(c)
  BY DEF Quiet
<1>4. PICK r \in Requests[c] : \E k \in 1 .. Len(Sends(r)) : \E m \in 0 .. k :
        SentOf(c, r, k) /\ ReceivedOf(c, r, m) /\ Spells(up[c], Sends(r), m, k)
  BY <1>1, <1>3, NotQuietDue DEF Carried
<1>5. PICK k \in 1 .. Len(Sends(r)) : \E m \in 0 .. k :
        SentOf(c, r, k) /\ ReceivedOf(c, r, m) /\ Spells(up[c], Sends(r), m, k)
  BY <1>4
<1>6. PICK m \in 0 .. k : SentOf(c, r, k) /\ ReceivedOf(c, r, m) /\ Spells(up[c], Sends(r), m, k)
  BY <1>5
<1>7. Sends(r) \in Pieces /\ Len(Sends(r)) \in Nat /\ up[c] \in Seq(Octets)
  BY RequestFacts, ProgramFacts
<1>8. m = Len(Sends(r)) /\ thread[c].req = r /\ k = m
  BY <1>5, <1>6, <1>7 DEF ReceivedOf
<1>9. up[c] = <<>>
  BY <1>6, <1>7, <1>8, SpellsNone
<1>10. /\ client[c].pc \in {AfterSending(r.op), "left"}
       /\ hist[c].sent = Append(hist[c].done, r) /\ hist[c].shown = <<>>
  BY <1>6, <1>7, <1>8 DEF SentOf
<1>11. client[c].pc # "left" => down[c] = <<>> /\ hist[c].got = hist[c].given
  BY <1>1, <1>3, NotQuietDue DEF Silent
<1> QED
  BY <1>1, <1>2, <1>8, <1>9, <1>10, <1>11

LEMMA DoesLink ==
  ASSUME Types, NEW c \in Clients, Link(c), Living, thread[c].pc = "do", NEW x \in Outcomes, NEW paths, NEW sends,
         Does(c, x, paths, sends), Living',
         \/ paths = <<>> /\ sends = <<>> /\ (thread[c].req.op # "L" \/ x = "N")
         \/ paths \in Listings /\ sends = ListSends(paths) /\ thread[c].req.op = "L"
  PROVE  Link(c)' /\ thread'[c].pc = "send"
<1>1. PICK r : r = thread[c].req
  OBVIOUS
<1>2. /\ Open(c) /\ c \notin reset /\ thread[c].serves = c /\ r \in Requests[c] /\ up[c] = <<>>
      /\ hist[c].sent = Append(hist[c].done, r) /\ hist[c].shown = <<>>
      /\ client[c].pc \in {AfterSending(r.op), "left"}
      /\ client[c].pc # "left" => down[c] = <<>> /\ hist[c].got = hist[c].given
  BY <1>1, Doable
<1>3. sends \in Pieces /\ paths \in Pieces
  BY OctetFacts, ListFacts
<1>4. thread'[c] = [pc |-> "send", serves |-> c, req |-> [r EXCEPT !.path = <<>>], size |-> 0, out |-> Append(sends, <<x>>)]
  <2>1. PICK s \in Threads : /\ s = [pc |-> "send", serves |-> thread[c].serves, req |-> [thread[c].req EXCEPT !.path = <<>>],
                                     size |-> 0, out |-> Append(sends, <<x>>)]
                             /\ thread' = [thread EXCEPT ![c] = s]
    BY <1>3, DoesThread
  <2>2. thread'[c] = s
    BY <2>1 DEF Types, ThreadTypes
  <2> QED
    BY <1>1, <1>2, <2>1, <2>2
<1>5. hist'[c] = [sent |-> hist[c].sent, done |-> hist[c].sent, given |-> Append(hist[c].given, x), got |-> hist[c].got,
                  listed |-> paths, shown |-> hist[c].shown]
  <2>1. PICK g : g = Append(hist[c].given, x)
    OBVIOUS
  <2>2. hist' = [hist EXCEPT ![c] = Recording(hist[c], hist[c].sent, g, paths)]
    BY <1>1, <1>2, <2>1, Zenon DEF Does, Recording
  <2>3. hist'[c] = Recording(hist[c], hist[c].sent, g, paths)
    BY <2>2 DEF Types, LinkTypes
  <2>4. PICK h, d : h \in Records /\ h = hist[c] /\ d = hist[c].sent
    BY ProgramFacts
  <2>5. hist'[c] = [sent |-> h.sent, done |-> d, given |-> g, got |-> h.got, listed |-> paths, shown |-> h.shown]
    BY <2>3, <2>4, PutDone
  <2> QED
    BY <2>1, <2>4, <2>5
<1>6. UNCHANGED <<client, up, down, hungup, reset>>
  BY DEF Does, links
<1>7. Open(c)'
  BY <1>2, <1>6 DEF Open
<1>8. r.op \in {"S", "R", "D", "K", "E", "L"} /\ [r EXCEPT !.path = <<>>].op = r.op
  BY <1>2, RequestForms
<1>9. client[c].pc \in {"count", "answer", "left"} /\ (r.op = "K" => client[c].pc = "left") /\ (r.op = "L" <=> client[c].pc = "count" \/ (r.op = "L" /\ client[c].pc = "left"))
  BY <1>2, <1>8 DEF AfterSending
<1>10. Len(Append(sends, <<x>>)) = 1 \/ r.op = "L"
  BY <1>1
<1>11. Served(c)'
  <2>1. PICK out, q : out = Append(sends, <<x>>) /\ q = [r EXCEPT !.path = <<>>]
    OBVIOUS
  <2>2. thread'[c] = [pc |-> "send", serves |-> c, req |-> q, size |-> 0, out |-> out] /\ q.op = r.op
    BY <1>4, <1>8, <2>1
  <2>3. Len(out) = 1 \/ q.op = "L"
    BY <1>10, <2>1, <2>2
  <2>4. client'[c] = client[c] /\ c \notin reset' /\ c \notin hungup' /\ client[c].pc # "off"
    BY <1>2, <1>6, <1>9 DEF Open
  <2> QED
    BY <1>9, <2>2, <2>3, <2>4 DEF Served
<1>12. Quiet(c)'
  BY <1>2, <1>4, <1>5, <1>6, <1>9 DEF Quiet
<1>13. hist[c] \in Records /\ hist[c].sent \in Seq(Commands) /\ hist[c].given \in Seq(Outcomes) /\ hist[c].got \in Seq(Outcomes)
  BY ProgramFacts DEF Records
<1>14. Upward(c)'
  <2>1. IsPrefix(hist[c].sent, hist[c].sent)
    BY <1>13, PrefixSame
  <2> QED
    BY <1>5, <1>12, <2>1 DEF Upward
<1>15. IsPrefix(hist'[c].shown, hist'[c].listed) /\ IsPrefix(hist'[c].got, hist'[c].given)
  <2>1. IsPrefix(<<>>, paths)
    BY <1>3, PrefixSame DEF Pieces
  <2>2. IsPrefix(hist[c].got, Append(hist[c].given, x))
    BY <1>13, PrefixFacts DEF Link, Downward
  <2> QED
    BY <1>2, <1>5, <2>1, <2>2
<1>16. ASSUME client[c].pc # "left" PROVE Due(c)'
  <2>1. hist'[c].given = Append(hist'[c].got, x) /\ down'[c] = <<>>
    BY <1>2, <1>5, <1>6, <1>16
  <2>2. CASE paths = <<>> /\ sends = <<>> /\ (r.op # "L" \/ x = "N")
    <3>1. PICK p : p = <<<<x>>>>
      OBVIOUS
    <3>2. p \in Pieces /\ Len(p) = 1 /\ p = Append(sends, <<x>>) /\ 0 \in 0 .. Len(p)
      <4>1. <<x>> \in Seq(Octets)
        BY OctetFacts DEF Outcomes
      <4> QED
        BY <2>2, <3>1, <4>1 DEF Pieces
    <3>3. Spells(<<>>, p, 0, 0)
      BY <3>2, SpellsEmpty
    <3>4. p = SubSeq(p, 0 + 1, Len(p))
      BY <3>2, RestFacts
    <3>5. Moves(c, p, 0, 0)'
      BY <1>4, <2>1, <3>2, <3>3, <3>4 DEF Moves
    <3>6. client'[c].pc = "answer" \/ (client'[c].pc = "count" /\ x = "N")
      BY <1>6, <1>9, <1>16, <2>2
    <3>7. 0 \in 0 .. 1 /\ hist'[c].shown = <<>> /\ hist'[c].listed = <<>>
      BY <1>2, <1>5, <2>2
    <3> QED
      BY <1>12, <2>1, <3>1, <3>5, <3>6, <3>7 DEF Due, Outcomes
  <2>3. CASE paths \in Listings /\ sends = ListSends(paths) /\ r.op = "L"
    <3>1. PICK p : p = Reply(paths, x)
      OBVIOUS
    <3>2. Len(paths) \in Nat /\ Len(sends) = 2 * Len(paths) + 1
      BY <2>3, ListFacts
    <3>3. p \in Pieces /\ Len(p) = 2 * Len(paths) + 2 /\ p = Append(sends, <<x>>) /\ 0 \in 0 .. Len(p) /\ 0 < Len(p)
      <4>1. <<x>> \in Seq(Octets)
        BY OctetFacts DEF Outcomes
      <4>2. p = Append(sends, <<x>>)
        BY <2>3, <3>1 DEF Reply
      <4>3. p \in Pieces /\ Len(p) = Len(sends) + 1
        BY <1>3, <4>1, <4>2 DEF Pieces
      <4> QED
        BY <3>2, <4>2, <4>3
    <3>4. Spells(<<>>, p, 0, 0)
      BY <3>3, SpellsEmpty
    <3>5. p = SubSeq(p, 0 + 1, Len(p))
      BY <3>3, RestFacts
    <3>6. Moves(c, p, 0, 0)'
      BY <1>4, <2>1, <3>3, <3>4, <3>5 DEF Moves
    <3>7. ReadOf(c, paths, 0)'
      BY <1>2, <1>5, <1>6, <1>9, <1>16, <2>3 DEF ReadOf
    <3>8. 0 \in 0 .. 2 * Len(paths) + 2 /\ hist'[c].listed = paths
      BY <1>5, <3>2
    <3> QED
      BY <1>12, <2>1, <2>3, <3>1, <3>6, <3>7, <3>8 DEF Due, Outcomes
  <2> QED
    BY <1>1, <2>2, <2>3
<1>17. Downward(c)'
  BY <1>6, <1>15, <1>16 DEF Downward
<1> QED
  BY <1>4, <1>11, <1>14, <1>17 DEF Link

LEMMA DoLink ==
  ASSUME Types, NEW c \in Clients, Link(c), DoCommand(c) \/ DoList(c) \/ DoKill(c)
  PROVE  Link(c)' /\ thread'[c].pc = "send"
<1>1. CASE DoCommand(c)
  BY <1>1, DoesLink DEF DoCommand, Living, Outcomes
<1>2. CASE DoList(c)
  BY <1>2, DoesLink DEF DoList, Living, Outcomes
<1>3. CASE DoKill(c)
  BY <1>3, DoesLink DEF DoKill, Living, Outcomes
<1> QED
  BY <1>1, <1>2, <1>3

LEMMA AnswerPiece ==
  ASSUME NEW x \in {"Y", "N"}
  PROVE  <<<<x>>>> \in Pieces /\ Len(<<<<x>>>>) = 1 /\ <<x>> \in Seq(Octets)
<1>1. <<x>> \in Seq(Octets)
  BY OctetFacts
<1> QED
  BY <1>1 DEF Pieces

LEMMA ReplyFacts ==
  ASSUME NEW paths \in Listings, NEW x \in {"Y", "N"}
  PROVE  /\ Reply(paths, x) \in Pieces /\ Len(Reply(paths, x)) = 2 * Len(paths) + 2 /\ Len(paths) \in Nat
         /\ Reply(paths, x)[1] = Int4(Len(paths)) /\ Reply(paths, x)[2 * Len(paths) + 2] = <<x>>
         /\ \A q \in 0 .. Len(paths) - 1 : /\ Reply(paths, x)[2 * q + 2] = Int4(Len(paths[q + 1]))
                                           /\ Reply(paths, x)[2 * q + 3] = paths[q + 1]
<1>1. PICK n \in Nat : n = Len(paths)
  BY ListFacts
<1>2. PICK l : l = ListSends(paths)
  OBVIOUS
<1>3. /\ l \in Pieces /\ Len(l) = 2 * n + 1 /\ l[1] = Int4(Len(paths))
      /\ \A q \in 0 .. n - 1 : l[2 * q + 2] = Int4(Len(paths[q + 1])) /\ l[2 * q + 3] = paths[q + 1]
  BY <1>1, <1>2, ListFacts
<1>4. <<x>> \in Seq(Octets)
  BY AnswerPiece
<1>5. PICK p : p = Append(l, <<x>>)
  OBVIOUS
<1>6. /\ p \in Pieces /\ Len(p) = 2 * n + 2 /\ p[2 * n + 2] = <<x>>
      /\ \A i \in 1 .. 2 * n + 1 : p[i] = l[i]
  <2>1. PICK y \in Seq(Octets) : y = <<x>>
    BY <1>4
  <2>2. PICK k \in Nat : k = 2 * n + 1 /\ k + 1 = 2 * n + 2
    BY <1>1
  <2>3. l \in Seq(Seq(Octets)) /\ Len(l) = k /\ p = Append(l, y)
    BY <1>3, <1>5, <2>1, <2>2 DEF Pieces
  <2>4. p \in Seq(Seq(Octets)) /\ Len(p) = k + 1 /\ p[k + 1] = y /\ \A i \in 1 .. k : p[i] = l[i]
    BY <2>3, AppendProperties
  <2> QED
    BY <2>1, <2>2, <2>4 DEF Pieces
<1>7. p[1] = l[1] /\ \A q \in 0 .. n - 1 : p[2 * q + 2] = l[2 * q + 2] /\ p[2 * q + 3] = l[2 * q + 3]
  <2>1. 1 \in 1 .. 2 * n + 1 /\ \A q \in 0 .. n - 1 : 2 * q + 2 \in 1 .. 2 * n + 1 /\ 2 * q + 3 \in 1 .. 2 * n + 1
    BY <1>1
  <2> QED
    BY <1>6, <2>1
<1> QED
  BY <1>1, <1>2, <1>3, <1>5, <1>6, <1>7 DEF Reply

----------------------------------------------------------------------------
(* A thread sends *)

LEMMA SendOutLink ==
  ASSUME Types, NEW c \in Clients, Link(c), SendOut(c)
  PROVE  /\ Link(c)' /\ thread'[c].pc # "new"
         /\ proc' = "broken" => thread'[c].req.op = "L" /\ thread'[c].serves = c /\ c \in reset'
<1>1. PICK out, op : out = thread[c].out /\ op = thread[c].req.op
  OBVIOUS
<1>2. Living /\ thread[c].pc = "send"
  BY DEF SendOut
<1>3. Open(c) /\ thread[c].serves = c /\ client[c].pc # "off"
  BY <1>2, ThreadOpen
<1>4. Quiet(c)
  BY <1>2, <1>3, NotQuietDue DEF Carried, ReceivedOf
<1>5. up[c] = <<>> /\ hist[c].sent = hist[c].done
  BY <1>4 DEF Quiet
<1>6. PICK rest : rest = Tail(out)
  OBVIOUS
<1>7. out \in Pieces /\ out # <<>> /\ Head(out) \in Seq(Octets)
  BY <1>1, SendOutThread
<1>8. thread'[c] = [pc |-> IF rest # <<>> THEN "send" ELSE IF op = "K" THEN "gone" ELSE "op",
                    serves |-> c, req |-> thread[c].req, size |-> thread[c].size, out |-> rest]
  <2>1. PICK r : /\ r = [pc |-> IF Tail(thread[c].out) # <<>> THEN "send" ELSE IF thread[c].req.op = "K" THEN "gone" ELSE "op",
                         serves |-> thread[c].serves, req |-> thread[c].req,
                         size |-> thread[c].size, out |-> Tail(thread[c].out)]
                 /\ thread' = [thread EXCEPT ![c] = r]
    BY SendOutThread
  <2>2. thread'[c] = r
    BY <2>1 DEF Types, ThreadTypes
  <2> QED
    BY <1>1, <1>3, <1>6, <2>1, <2>2
<1>9. /\ UNCHANGED <<client, up, hist>>
      /\ hungup' = IF rest = <<>> /\ op = "K" THEN hungup \cup {c} ELSE hungup
      /\ IF client[c].pc = "left"
         THEN reset' = reset \cup {c} /\ proc' = (IF c \in reset THEN "broken" ELSE proc)
         ELSE down' = [down EXCEPT ![c] = @ \o Head(out)] /\ UNCHANGED <<reset, proc>>
  BY <1>1, <1>3, <1>6 DEF SendOut, Open
<1>10. rest # <<>> => op = "L"
  <2>1. Len(out) = 1 \/ op = "L"
    BY <1>1, <1>2 DEF Link, Served
  <2>2. Len(out) = 1 => rest = <<>>
    BY <1>6, <1>7 DEF Pieces
  <2> QED
    BY <2>1, <2>2
<1>11. IsPrefix(hist'[c].done, hist'[c].sent) /\ IsPrefix(hist'[c].shown, hist'[c].listed) /\ IsPrefix(hist'[c].got, hist'[c].given)
  BY <1>9 DEF Link, Upward, Downward
<1>12. Open(c)' => Quiet(c)'
  <2>1. Open(c)' => thread'[c].pc \in {"send", "op"}
    BY <1>8, <1>9 DEF Open
  <2> QED
    BY <1>4, <1>9, <2>1 DEF Quiet
<1>13. Upward(c)'
  BY <1>11, <1>12 DEF Upward
<1>14. thread[c].pc = "send" /\ op = "K" => client[c].pc = "left"
  BY <1>1 DEF Link, Served
<1>15. thread'[c].serves = c /\ thread'[c].req = thread[c].req /\ thread'[c].out = rest
       /\ thread'[c].pc = (IF rest # <<>> THEN "send" ELSE IF op = "K" THEN "gone" ELSE "op")
  BY <1>8
<1>16. c \in reset => client[c].pc = "left" /\ op = "L"
  BY <1>1, <1>2, <1>3 DEF Link, Served
<1>17. CASE client[c].pc = "left"
  <2>1. Served(c)'
    BY <1>1, <1>3, <1>5, <1>9, <1>10, <1>15, <1>17 DEF Served, Open
  <2>2. Downward(c)'
    BY <1>9, <1>11, <1>17 DEF Downward
  <2>3. proc' = "broken" => thread'[c].req.op = "L" /\ thread'[c].serves = c /\ c \in reset'
    BY <1>1, <1>2, <1>9, <1>15, <1>16, <1>17 DEF Living
  <2> QED
    BY <1>13, <1>15, <2>1, <2>2, <2>3 DEF Link
<1>18. CASE client[c].pc # "left"
  <2>0. op # "K" /\ c \notin reset /\ UNCHANGED <<proc, hungup, reset>>
    BY <1>2, <1>9, <1>14, <1>16, <1>18
  <2>1. Served(c)'
    BY <1>1, <1>3, <1>9, <1>10, <1>15, <2>0 DEF Served, Open
  <2>2. Due(c)
    BY <1>2, <1>3, <1>18 DEF Link, Downward, Silent
  <2>3. ASSUME NEW p \in Pieces, NEW i, NEW j, Moves(c, p, i, j) PROVE j < Len(p) /\ Moves(c, p, i, j + 1)'
    <3>1. Spells(down[c], p, i, j) /\ i < Len(p) /\ j < Len(p) /\ out = SubSeq(p, j + 1, Len(p))
      BY <1>1, <1>2, <1>3, <2>3 DEF Moves
    <3>2. i \in 0 .. j /\ j \in Nat /\ down[c] \in Seq(Octets)
      BY <3>1, ProgramFacts DEF Spells
    <3>3. Head(out) = p[j + 1] /\ rest = SubSeq(p, j + 2, Len(p)) /\ (rest = <<>> <=> j + 1 = Len(p))
      BY <1>6, <3>1, <3>2, RestFacts
    <3>4. down'[c] = down[c] \o p[j + 1]
      BY <1>9, <1>18, <3>3 DEF Types, LinkTypes
    <3>5. Spells(down'[c], p, i, j + 1)
      BY <3>1, <3>2, <3>4, SpellsAppend
    <3>6. \/ thread'[c].pc = "send" /\ j + 1 < Len(p) /\ thread'[c].out = SubSeq(p, (j + 1) + 1, Len(p))
          \/ thread'[c].pc = "op" /\ j + 1 = Len(p)
      <4>1. Len(p) \in Nat /\ (j + 1) + 1 = j + 2
        BY <3>2 DEF Pieces
      <4>2. CASE rest = <<>>
        BY <1>15, <2>0, <3>3, <4>2
      <4>3. CASE rest # <<>>
        BY <1>15, <3>1, <3>2, <3>3, <4>1, <4>3
      <4> QED
        BY <4>2, <4>3
    <3> QED
      BY <3>1, <3>5, <3>6 DEF Moves
  <2>4. PICK x \in {"Y", "N"} :
          /\ hist[c].given = Append(hist[c].got, x)
          /\ \/ /\ client[c].pc = "answer" \/ (client[c].pc = "count" /\ x = "N")
                /\ hist[c].shown = <<>> /\ hist[c].listed = <<>>
                /\ \E j \in 0 .. 1 : Moves(c, <<<<x>>>>, 0, j)
             \/ /\ hist[c].listed \in Listings
                /\ \E i, j \in 0 .. 2 * Len(hist[c].listed) + 2 :
                     ReadOf(c, hist[c].listed, i) /\ Moves(c, Reply(hist[c].listed, x), i, j)
    BY <2>2 DEF Due
  <2>5. hist'[c].given = Append(hist'[c].got, x)
    BY <1>9, <2>4
  <2>6. ASSUME client[c].pc = "answer" \/ (client[c].pc = "count" /\ x = "N"),
               hist[c].shown = <<>> /\ hist[c].listed = <<>>,
               \E j \in 0 .. 1 : Moves(c, <<<<x>>>>, 0, j)
        PROVE  Due(c)'
    <3>1. PICK j \in 0 .. 1 : Moves(c, <<<<x>>>>, 0, j)
      BY <2>6
    <3>2. PICK p : p = <<<<x>>>>
      OBVIOUS
    <3>3. p \in Pieces /\ Len(p) = 1
      BY <3>2, AnswerPiece
    <3>4. j < Len(p) /\ Moves(c, p, 0, j + 1)'
      BY <2>3, <3>1, <3>2, <3>3
    <3>5. j + 1 \in 0 .. 1
      BY <3>3, <3>4
    <3>6. \E l \in 0 .. 1 : Moves(c, <<<<x>>>>, 0, l)'
      BY <3>2, <3>4, <3>5, Zenon
    <3>7. /\ client'[c].pc = "answer" \/ (client'[c].pc = "count" /\ x = "N")
          /\ hist'[c].shown = <<>> /\ hist'[c].listed = <<>>
      BY <1>9, <2>6
    <3> QED
      BY <1>12, <2>5, <3>6, <3>7, Zenon DEF Due
  <2>7. ASSUME hist[c].listed \in Listings,
               \E i, j \in 0 .. 2 * Len(hist[c].listed) + 2 :
                 ReadOf(c, hist[c].listed, i) /\ Moves(c, Reply(hist[c].listed, x), i, j)
        PROVE  Due(c)'
    <3>1. PICK paths, p : paths \in Listings /\ paths = hist[c].listed /\ p = Reply(paths, x)
      BY <2>7
    <3>0. paths \in Listings
      BY <3>1
    <3>2. PICK i \in 0 .. 2 * Len(paths) + 2, j \in 0 .. 2 * Len(paths) + 2 : ReadOf(c, paths, i) /\ Moves(c, p, i, j)
      BY <2>7, <3>1
    <3>3. p \in Pieces /\ Len(p) = 2 * Len(paths) + 2 /\ Len(paths) \in Nat
      BY <3>1, ReplyFacts
    <3>4. j < Len(p) /\ Moves(c, p, i, j + 1)'
      BY <2>3, <3>2, <3>3
    <3>5. PICK k \in 0 .. 2 * Len(paths) + 2 : k = j + 1
      BY <3>3, <3>4
    <3>6. ReadOf(c, paths, i)'
      BY <1>9, <3>2 DEF ReadOf
    <3>7. paths = hist'[c].listed
      BY <1>9, <3>1
    <3>8. Moves(c, Reply(paths, x), i, k)'
      BY <3>1, <3>4, <3>5
    <3> QED
      BY <1>12, <2>5, <3>0, <3>2, <3>6, <3>7, <3>8, Zenon DEF Due
  <2>8. Due(c)'
    BY <2>4, <2>6, <2>7
  <2>9. proc' # "broken"
    BY <1>2, <2>0 DEF Living
  <2> QED
    BY <1>11, <1>13, <1>15, <2>1, <2>8, <2>9 DEF Link, Downward
<1> QED
  BY <1>17, <1>18

----------------------------------------------------------------------------
(* A client at the prompt, and a client that leaves *)

LEMMA AtPlace ==
  ASSUME Types, NEW c \in Clients, NEW p, client' = At(c, p)
  PROVE  client'[c].pc = p /\ \A d \in Clients \ {c} : client'[d] = client[d]
BY DEF At, Types, ClientTypes

LEMMA ServedClient ==
  ASSUME NEW c \in Clients, Served(c), ClientDoes(c), client[c].pc # "left", client'[c].pc # "off"
  PROVE  Served(c)' /\ c \notin reset /\ (Open(c)' <=> Open(c)) /\ UNCHANGED <<proc, thread, hungup, reset>>
BY DEF Served, ClientDoes, Open, Living

LEMMA PromptLink ==
  ASSUME Types, NEW c \in Clients, Link(c), ClientDoes(c), UNCHANGED <<up, down, hist>>,
         client[c].pc \in {"off", "typing"}, client'[c].pc \in {"typing", "sending", "answer"},
         client'[c].pc = "sending" => client'[c].req \in Requests[c] /\ client'[c].todo = Sends(client'[c].req)
  PROVE  Link(c)'
<1>1. Served(c)' /\ (Open(c)' <=> Open(c)) /\ UNCHANGED <<proc, thread, hungup, reset>>
  BY ServedClient DEF Link
<1>2. ~Carried(c) /\ ~Due(c)
  BY DEF Carried, SentOf, AfterSending, Due, ReadOf
<1>3. Open(c) => Quiet(c)
  BY <1>2 DEF Link, Upward
<1>4. Silent(c)
  BY <1>2 DEF Link, Downward
<1>5. Open(c)' => Quiet(c)'
  BY <1>1, <1>3 DEF Quiet
<1>6. Upward(c)'
  BY <1>5 DEF Link, Upward
<1>7. Silent(c)'
  BY <1>1, <1>4 DEF Silent
<1> QED
  BY <1>1, <1>6, <1>7 DEF Link, Downward

LEMMA LeftLink ==
  ASSUME Types, NEW c \in Clients, Link(c), ClientDoes(c), UNCHANGED <<up, hist>>,
         client[c].pc # "left", client'[c].pc = "left"
  PROVE  Link(c)'
<1>1. Served(c)' /\ (Open(c)' <=> Open(c)) /\ UNCHANGED <<proc, thread, hungup, reset>>
  BY ServedClient DEF Link
<1>2. Quiet(c) => Quiet(c)'
  BY <1>1 DEF Quiet
<1>3. Carried(c) => Carried(c)'
  <2>1. \A r, k : SentOf(c, r, k) => SentOf(c, r, k)'
    BY DEF SentOf
  <2>2. \A r, m : ReceivedOf(c, r, m) => ReceivedOf(c, r, m)'
    BY <1>1 DEF ReceivedOf
  <2>3. \A p, m, k : Spells(up[c], p, m, k) => Spells(up'[c], p, m, k)
    OBVIOUS
  <2> QED
    BY <2>1, <2>2, <2>3, Zenon DEF Carried
<1>4. Upward(c)'
  BY <1>1, <1>2, <1>3 DEF Link, Upward
<1>5. Downward(c)'
  BY DEF Link, Downward
<1> QED
  BY <1>1, <1>4, <1>5 DEF Link

LEMMA PromptsLink ==
  ASSUME Types, NEW c \in Clients, Link(c),
         Connect(c) \/ (\E q \in Requests[c] : Type(c, q)) \/ TypeNothing(c) \/ Leave(c)
  PROVE  Link(c)' /\ client'[c].pc # "off"
<1>0. client[c] \in Programs
  BY ProgramFacts
<1>1. CASE Connect(c)
  <2>1. client'[c].pc = "typing"
    BY <1>0, <1>1 DEF Connect, Types, ClientTypes, Programs
  <2> QED
    BY <1>1, <2>1, PromptLink DEF Connect
<1>2. ASSUME NEW q \in Requests[c], Type(c, q) PROVE Link(c)' /\ client'[c].pc # "off"
  <2>1. PICK r : r = Typed(client[c], q, Sends(q), client[c].lines + 1)
    OBVIOUS
  <2>2. r.pc = "sending" /\ r.req = q /\ r.todo = Sends(q)
    BY <1>0, <2>1, TypedIs
  <2>3. client' = [client EXCEPT ![c] = r]
    BY <1>2, <2>1, Zenon DEF Type, Typed
  <2>4. client'[c] = r
    BY <2>3 DEF Types, ClientTypes
  <2> QED
    BY <1>2, <2>2, <2>4, PromptLink DEF Type
<1>3. CASE TypeNothing(c)
  <2>1. PICK r : r = Blank(client[c], client[c].lines + 1)
    OBVIOUS
  <2>2. r.pc = "answer"
    BY <1>0, <2>1, BlankIs
  <2>3. client' = [client EXCEPT ![c] = r]
    BY <1>3, <2>1, Zenon DEF TypeNothing, Blank
  <2>4. client'[c] = r
    BY <2>3 DEF Types, ClientTypes
  <2> QED
    BY <1>3, <2>2, <2>4, PromptLink DEF TypeNothing
<1>4. CASE Leave(c)
  <2>1. client'[c].pc = "left"
    BY <1>4, AtPlace DEF Leave, Left
  <2> QED
    BY <1>4, <2>1, LeftLink DEF Leave
<1> QED
  BY <1>1, <1>2, <1>3, <1>4

----------------------------------------------------------------------------
(* A client sends *)

\* What a client sends is a part of its command, and the parts before it were sent.
LEMMA Sending ==
  ASSUME Types, NEW c \in Clients, Link(c), Open(c), client[c].pc = "sending"
  PROVE  /\ Silent(c) /\ hist[c].got = hist[c].given /\ hist[c].sent = hist[c].done
         /\ \E r \in Requests[c], k \in Nat, m \in Nat :
              /\ k < Len(Sends(r)) /\ m \in 0 .. k /\ client[c].req = r
              /\ client[c].todo = SubSeq(Sends(r), k + 1, Len(Sends(r)))
              /\ ReceivedOf(c, r, m) /\ Spells(up[c], Sends(r), m, k)
<1>1. ~Due(c)
  BY DEF Due, ReadOf
<1>2. Silent(c)
  BY <1>1 DEF Link, Downward
<1>3. hist[c].got = hist[c].given /\ thread[c].pc # "send"
  BY <1>2 DEF Silent
<1>4. CASE Quiet(c)
  <2>1. PICK r \in Requests[c] : client[c].req = r /\ client[c].todo = Sends(r)
    BY <1>4 DEF Quiet
  <2>2. Sends(r) \in Pieces /\ 0 < Len(Sends(r)) /\ 0 \in 0 .. Len(Sends(r)) /\ 0 \in 0 .. 0
    BY RequestFacts
  <2>3. Sends(r) = SubSeq(Sends(r), 0 + 1, Len(Sends(r)))
    BY <2>2, RestFacts
  <2>4. Spells(up[c], Sends(r), 0, 0)
    BY <1>4, <2>2, SpellsEmpty DEF Quiet
  <2>5. ReceivedOf(c, r, 0) /\ hist[c].sent = hist[c].done
    BY <1>3, <1>4 DEF Quiet, ReceivedOf
  <2> QED
    BY <1>2, <1>3, <2>1, <2>2, <2>3, <2>4, <2>5
<1>5. CASE Carried(c)
  <2>1. PICK r \in Requests[c] : \E k \in 1 .. Len(Sends(r)) : \E m \in 0 .. k :
          SentOf(c, r, k) /\ ReceivedOf(c, r, m) /\ Spells(up[c], Sends(r), m, k)
    BY <1>5 DEF Carried
  <2>2. PICK k \in 1 .. Len(Sends(r)) : \E m \in 0 .. k :
          SentOf(c, r, k) /\ ReceivedOf(c, r, m) /\ Spells(up[c], Sends(r), m, k)
    BY <2>1
  <2>3. PICK m \in 0 .. k : SentOf(c, r, k) /\ ReceivedOf(c, r, m) /\ Spells(up[c], Sends(r), m, k)
    BY <2>2
  <2>4. /\ client[c].req = r /\ client[c].todo = SubSeq(Sends(r), k + 1, Len(Sends(r))) /\ k < Len(Sends(r))
        /\ hist[c].sent = hist[c].done
    BY <2>3 DEF SentOf, AfterSending
  <2>5. k \in Nat /\ m \in Nat
    OBVIOUS
  <2> QED
    BY <1>2, <1>3, <2>3, <2>4, <2>5
<1> QED
  BY <1>4, <1>5 DEF Link, Upward

Noting(h, s) == [h EXCEPT !.sent = s, !.shown = <<>>]

LEMMA NotingIs ==
  ASSUME NEW h \in Records, NEW s
  PROVE  Noting(h, s) = [sent |-> s, done |-> h.done, given |-> h.given, got |-> h.got, listed |-> h.listed, shown |-> <<>>]
<1>1. PICK u : u = [h EXCEPT !.sent = s]
  OBVIOUS
<1>2. u = [sent |-> s, done |-> h.done, given |-> h.given, got |-> h.got, listed |-> h.listed, shown |-> h.shown]
  BY <1>1 DEF Records
<1>3. [u EXCEPT !.shown = <<>>]
        = [sent |-> s, done |-> h.done, given |-> h.given, got |-> h.got, listed |-> h.listed, shown |-> <<>>]
  BY <1>2
<1> QED
  BY <1>1, <1>3 DEF Noting

LEMMA SendTodoLink ==
  ASSUME Types, NEW c \in Clients, Link(c), SendTodo(c)
  PROVE  Link(c)' /\ client'[c].pc # "off"
<1>1. client[c].pc = "sending" /\ ClientDoes(c) /\ UNCHANGED down
  BY DEF SendTodo
<1>2. CASE client' = Left(c) /\ Closed(c)
  <2>1. client'[c].pc = "left"
    BY <1>2, AtPlace DEF Left
  <2> QED
    BY <1>1, <1>2, <2>1, LeftLink DEF SendTodo
<1>3. ASSUME NEW s \in Programs,
             s = [pc |-> IF Tail(client[c].todo) = <<>> THEN AfterSending(client[c].req.op) ELSE "sending",
                  req |-> client[c].req, todo |-> Tail(client[c].todo),
                  nb |-> client[c].nb, size |-> client[c].size, lines |-> client[c].lines],
             client' = [client EXCEPT ![c] = s]
      PROVE  Link(c)' /\ client'[c].pc # "off"
  <2>1. PICK rest, q : rest = Tail(client[c].todo) /\ q = client[c].req
    OBVIOUS
  <2>2. /\ client'[c].pc = (IF rest = <<>> THEN AfterSending(q.op) ELSE "sending")
        /\ client'[c].req = q /\ client'[c].todo = rest
    <3>1. client'[c] = s
      BY <1>3 DEF Types, ClientTypes
    <3>2. PICK p : p = IF rest = <<>> THEN AfterSending(q.op) ELSE "sending"
      OBVIOUS
    <3>3. s = [pc |-> p, req |-> q, todo |-> rest, nb |-> client[c].nb, size |-> client[c].size, lines |-> client[c].lines]
      BY <1>3, <2>1, <3>2, Zenon
    <3> QED
      BY <3>1, <3>2, <3>3
  <2>3. client'[c].pc # "off"
    BY <2>2 DEF AfterSending
  <2>4. Served(c)' /\ c \notin reset /\ (Open(c)' <=> Open(c)) /\ UNCHANGED <<proc, thread, hungup, reset>>
    BY <1>1, <2>3, ServedClient DEF Link
  <2>5. CASE Closed(c)
    <3>1. UNCHANGED <<up, down, hist>> /\ ~Open(c)
      BY <1>1, <2>5 DEF SendTodo, Closed, Open
    <3>2. ~Due(c)
      BY <1>1 DEF Due, ReadOf
    <3>3. Silent(c)'
      BY <1>1, <2>4, <3>1, <3>2 DEF Link, Downward, Silent
    <3> QED
      BY <2>3, <2>4, <3>1, <3>3 DEF Link, Upward, Downward
  <2>6. CASE ~Closed(c)
    <3>1. Open(c) /\ UNCHANGED down
      BY <1>1, <2>6 DEF Closed, Open
    <3>2. Silent(c) /\ hist[c].got = hist[c].given /\ hist[c].sent = hist[c].done
      BY <1>1, <3>1, Sending
    <3>3. PICK r \in Requests[c], k \in Nat, m \in Nat :
            /\ k < Len(Sends(r)) /\ m \in 0 .. k /\ q = r
            /\ client[c].todo = SubSeq(Sends(r), k + 1, Len(Sends(r)))
            /\ ReceivedOf(c, r, m) /\ Spells(up[c], Sends(r), m, k)
      BY <1>1, <2>1, <3>1, Sending
    <3>4. Sends(r) \in Pieces /\ Len(Sends(r)) \in Nat /\ up[c] \in Seq(Octets) /\ r \in Commands
      BY RequestFacts, ProgramFacts
    <3>5. /\ Head(client[c].todo) = Sends(r)[k + 1] /\ rest = SubSeq(Sends(r), k + 2, Len(Sends(r)))
          /\ rest = <<>> <=> k + 1 = Len(Sends(r))
      BY <2>1, <3>3, <3>4, RestFacts
    <3>6. up'[c] = up[c] \o Sends(r)[k + 1]
      BY <2>6, <3>5 DEF SendTodo, Types, LinkTypes
    <3>7. Spells(up'[c], Sends(r), m, k + 1)
      BY <3>3, <3>4, <3>6, SpellsAppend
    <3>8. ReceivedOf(c, r, m)'
      BY <2>4, <3>3 DEF ReceivedOf
    <3>9. PICK H \in Records : H = hist[c]
      BY ProgramFacts
    <3>10. rest # <<>> => hist'[c] = H
      BY <2>1, <2>6, <3>9 DEF SendTodo
    <3>11. rest = <<>> => hist'[c] = [sent |-> Append(H.sent, r), done |-> H.done, given |-> H.given, got |-> H.got,
                                      listed |-> H.listed, shown |-> <<>>]
      <4> SUFFICES ASSUME rest = <<>> PROVE hist'[c] = [sent |-> Append(H.sent, r), done |-> H.done, given |-> H.given,
                                                        got |-> H.got, listed |-> H.listed, shown |-> <<>>]
        OBVIOUS
      <4>1. PICK d : d = Append(H.sent, r)
        OBVIOUS
      <4>2. hist' = [hist EXCEPT ![c].sent = d, ![c].shown = <<>>]
        BY <2>1, <2>6, <3>3, <3>9, <4>1 DEF SendTodo
      <4>3. hist' = [hist EXCEPT ![c] = Noting(H, d)]
        BY <3>9, <4>2, Zenon DEF Noting
      <4>4. hist'[c] = Noting(H, d)
        BY <4>3 DEF Types, LinkTypes
      <4> QED
        BY <4>1, <4>4, NotingIs
    <3>12. SentOf(c, r, k + 1)'
      <4>1. CASE rest = <<>>
        <5>1. /\ client'[c].pc = AfterSending(r.op) /\ k + 1 = Len(Sends(r))
              /\ hist'[c].sent = Append(H.sent, r) /\ H.sent = H.done /\ hist'[c].done = H.done /\ hist'[c].shown = <<>>
          BY <2>2, <3>2, <3>3, <3>5, <3>9, <3>11, <4>1
        <5> QED
          BY <5>1 DEF SentOf
      <4>2. CASE rest # <<>>
        <5>1. /\ client'[c].pc = "sending" /\ client'[c].req = r /\ client'[c].todo = SubSeq(Sends(r), (k + 1) + 1, Len(Sends(r)))
              /\ k + 1 < Len(Sends(r)) /\ hist'[c].sent = hist'[c].done
          BY <2>2, <3>2, <3>3, <3>4, <3>5, <3>9, <3>10, <4>2
        <5> QED
          BY <5>1 DEF SentOf
      <4> QED
        BY <4>1, <4>2
    <3>13. Carried(c)'
      <4>1. k + 1 \in 1 .. Len(Sends(r)) /\ m \in 0 .. k + 1
        BY <3>3, <3>4
      <4>2. PICK l : l = k + 1
        OBVIOUS
      <4>3. SentOf(c, r, l)' /\ Spells(up'[c], Sends(r), m, l) /\ l \in 1 .. Len(Sends(r)) /\ m \in 0 .. l
        BY <3>7, <3>12, <4>1, <4>2
      <4> QED
        BY <3>8, <4>3, Zenon DEF Carried
    <3>14. H.sent \in Seq(Commands) /\ H.listed \in Pieces /\ H.got \in Seq(Outcomes)
      BY DEF Records
    <3>15. /\ IsPrefix(H.done, H.sent) /\ IsPrefix(H.done, Append(H.sent, r)) /\ Append(H.sent, r) # H.done
           /\ IsPrefix(H.shown, H.listed) /\ IsPrefix(<<>>, H.listed) /\ IsPrefix(H.got, H.given)
      <4>1. IsPrefix(H.sent, Append(H.sent, r)) /\ Append(H.sent, r) # H.sent
        BY <3>4, <3>14, PrefixFacts
      <4>2. IsPrefix(<<>>, H.listed)
        BY <3>14, PrefixSame DEF Pieces
      <4>3. H.done = H.sent
        BY <3>2, <3>9
      <4>4. IsPrefix(H.done, H.sent) /\ IsPrefix(H.shown, H.listed) /\ IsPrefix(H.got, H.given)
        BY <3>9 DEF Link, Upward, Downward
      <4>5. IsPrefix(H.done, Append(H.sent, r)) /\ Append(H.sent, r) # H.done
        BY <4>1, <4>3
      <4> QED
        BY <4>2, <4>4, <4>5, Zenon
    <3>16. Upward(c)'
      <4>1. CASE rest # <<>>
        BY <3>10, <3>13, <3>15, <4>1 DEF Upward
      <4>2. CASE rest = <<>>
        <5>1. hist'[c].done = H.done /\ hist'[c].sent = Append(H.sent, r)
          BY <3>11, <4>2
        <5> QED
          BY <3>13, <3>15, <5>1 DEF Upward
      <4> QED
        BY <4>1, <4>2
    <3>17. IsPrefix(hist'[c].shown, hist'[c].listed) /\ IsPrefix(hist'[c].got, hist'[c].given)
      BY <3>10, <3>11, <3>15
    <3>18. ASSUME client'[c].pc # "left" PROVE Silent(c)'
      <4>1. client'[c].pc \in {"sending", "count", "answer"}
        BY <2>2, <3>18 DEF AfterSending
      <4>2. hist'[c].got = hist'[c].given
        BY <3>2, <3>9, <3>10, <3>11
      <4>3. hist'[c].sent = hist'[c].done => hist'[c].shown = hist'[c].listed
        BY <3>2, <3>9, <3>10, <3>11, <3>15 DEF Silent
      <4>4. down'[c] = <<>> /\ thread'[c].pc # "send"
        BY <2>4, <3>1, <3>2 DEF Silent
      <4> QED
        BY <3>17, <4>1, <4>2, <4>3, <4>4 DEF Silent
    <3>19. Downward(c)'
      BY <3>17, <3>18 DEF Downward
    <3> QED
      BY <2>3, <2>4, <3>16, <3>19 DEF Link
  <2> QED
    BY <2>5, <2>6
<1> QED
  BY <1>2, <1>3, SendTodoClient

----------------------------------------------------------------------------
(* A client reads *)

LEMMA SpellsOne ==
  ASSUME NEW s \in Seq(Octets), NEW p \in Pieces, NEW j \in Nat, Spells(s, p, j, j + 1)
  PROVE  Len(s) = Len(p[j + 1]) /\ From(s, Len(s)) = <<>>
<1>1. j \in j .. (j + 1) - 1 /\ j + 1 \in 0 .. Len(p) /\ Len(p) \in Nat /\ j + 1 \in 1 .. Len(p)
  BY DEF Spells, Pieces
<1>2. PICK off \in [j .. j + 1 -> 0 .. Len(s)] :
        /\ off[j] = 0 /\ off[j + 1] = Len(s)
        /\ \A i \in j .. (j + 1) - 1 : off[i + 1] = off[i] + Len(p[i + 1])
  BY DEF Spells
<1>3. Len(s) = 0 + Len(p[j + 1]) /\ Len(p[j + 1]) \in Nat
  BY <1>1, <1>2 DEF Pieces
<1>4. From(s, Len(s)) = <<>>
  BY DEF From
<1> QED
  BY <1>3, <1>4

LEMMA SpellsWhole ==
  ASSUME NEW s \in Seq(Octets), NEW p \in Pieces, NEW i, NEW j, Spells(s, p, i, j),
         NEW n \in Nat, NEW o \in Arrived(s, n, FALSE), Len(p[i + 1]) = n
  PROVE  o = p[i + 1] /\ Spells(From(s, Len(o)), p, i + 1, j)
<1>1. PICK cut \in BOOLEAN : ~cut /\ cut = FALSE
  OBVIOUS
<1>2. o \in Arrived(s, n, cut)
  BY <1>1
<1> QED
  BY <1>1, <1>2, SpellsTake

\* What a client that waits gets is a part of a reply.
LEMMA Reading ==
  ASSUME Types, NEW c \in Clients, Link(c), client[c].pc \in {"count", "size", "path", "answer"},
         NEW n \in Nat, NEW cut \in BOOLEAN, NEW o \in Arrived(down[c], n, cut)
  PROVE  Due(c)
<1>1. down[c] # <<>>
  BY ProgramFacts, ArrivedFacts
<1> QED
  BY <1>1 DEF Link, Downward, Silent

\* What a step of a client that reads does not touch
LEMMA ReadsRest ==
  ASSUME Types, NEW c \in Clients, Link(c), ClientDoes(c), UNCHANGED up, Open(c) => Quiet(c),
         client[c].pc \in {"count", "size", "path", "answer"}, client'[c].pc \in {"size", "path", "answer", "typing"},
         hist'[c].sent = hist[c].sent, hist'[c].done = hist[c].done
  PROVE  /\ Served(c)' /\ Upward(c)' /\ (Open(c)' <=> Open(c)) /\ (Open(c)' => Quiet(c)')
         /\ UNCHANGED <<proc, thread, hungup, reset>>
<1>1. Served(c)' /\ (Open(c)' <=> Open(c)) /\ UNCHANGED <<proc, thread, hungup, reset>>
  BY ServedClient DEF Link
<1>2. Open(c)' => Quiet(c)'
  BY <1>1 DEF Quiet
<1> QED
  BY <1>1, <1>2 DEF Link, Upward

\* The client reads one more piece of a listing, and the reply goes on.
LEMMA ReadsOn ==
  ASSUME Types, NEW c \in Clients, Link(c), ClientDoes(c), UNCHANGED up, Open(c) => Quiet(c),
         client[c].pc \in {"count", "size", "path", "answer"}, client'[c].pc \in {"size", "path", "answer"},
         NEW x \in {"Y", "N"}, hist[c].given = Append(hist[c].got, x),
         NEW paths \in Listings, hist[c].listed = paths,
         NEW p, p = Reply(paths, x), NEW i \in Nat, NEW j \in 0 .. 2 * Len(paths) + 2, Moves(c, p, i, j),
         i + 1 < Len(p), Spells(down'[c], p, i + 1, j),
         \A f \in {"sent", "done", "given", "got", "listed"} : hist'[c][f] = hist[c][f],
         ReadOf(c, paths, i + 1)', IsPrefix(hist'[c].shown, paths)
  PROVE  Link(c)' /\ client'[c].pc # "off"
<1>1. /\ hist'[c].sent = hist[c].sent /\ hist'[c].done = hist[c].done /\ hist'[c].given = hist[c].given
      /\ hist'[c].got = hist[c].got /\ hist'[c].listed = hist[c].listed
  BY Zenon
<1>2. /\ Served(c)' /\ Upward(c)' /\ (Open(c)' <=> Open(c)) /\ (Open(c)' => Quiet(c)')
      /\ UNCHANGED <<proc, thread, hungup, reset>>
  BY <1>1, ReadsRest
<1>3. Moves(c, p, i + 1, j)'
  BY <1>2 DEF Moves
<1>4. Due(c)'
  <2>1. PICK k \in 0 .. 2 * Len(paths) + 2 : k = i + 1
    <3>1. Len(paths) \in Nat /\ Len(p) = 2 * Len(paths) + 2
      BY ReplyFacts
    <3> QED
      BY <3>1
  <2>2. ReadOf(c, paths, k)' /\ Moves(c, Reply(paths, x), k, j)'
    BY <1>3, <2>1
  <2>3. hist'[c].given = Append(hist'[c].got, x) /\ paths = hist'[c].listed
    BY <1>1
  <2> QED
    BY <1>2, <2>2, <2>3, Zenon DEF Due
<1>5. Downward(c)'
  BY <1>1, <1>4 DEF Link, Downward
<1> QED
  BY <1>2, <1>5 DEF Link

\* The client reads the last piece of a reply.
LEMMA ReadsLast ==
  ASSUME Types, NEW c \in Clients, Link(c), ClientDoes(c), UNCHANGED up, Open(c) => Quiet(c),
         client[c].pc \in {"count", "size", "path", "answer"}, client'[c].pc \in {"size", "answer", "typing"},
         NEW x \in {"Y", "N"}, hist[c].given = Append(hist[c].got, x),
         NEW p \in Pieces, NEW i, NEW j, Moves(c, p, i, j), j = Len(p), down'[c] = <<>>,
         \/ client'[c].pc # "typing" /\ UNCHANGED hist
         \/ /\ \A f \in {"sent", "done", "given", "listed", "shown"} : hist'[c][f] = hist[c][f]
            /\ client'[c].pc = "typing" /\ hist'[c].got = hist[c].given /\ hist[c].shown = hist[c].listed
  PROVE  Link(c)' /\ client'[c].pc # "off"
<1>1. /\ hist'[c].sent = hist[c].sent /\ hist'[c].done = hist[c].done /\ hist'[c].given = hist[c].given
      /\ hist'[c].shown = hist[c].shown /\ hist'[c].listed = hist[c].listed
  BY Zenon
<1>2. /\ Served(c)' /\ Upward(c)' /\ (Open(c)' <=> Open(c)) /\ (Open(c)' => Quiet(c)')
      /\ UNCHANGED <<proc, thread, hungup, reset>>
  BY <1>1, ReadsRest
<1>3. hist[c].got \in Seq(Outcomes) /\ hist[c].given \in Seq(Outcomes) /\ x \in Outcomes
  BY ProgramFacts DEF Records, Outcomes
<1>4. IsPrefix(hist'[c].got, hist'[c].given)
  <2>1. IsPrefix(hist[c].given, hist[c].given)
    BY <1>3, PrefixSame
  <2> QED
    BY <1>1, <2>1 DEF Link, Downward
<1>5. Open(c)' => thread'[c].pc # "send"
  BY <1>2 DEF Moves
<1>6. hist'[c].got = hist'[c].given => hist'[c].shown = hist'[c].listed
  <2>1. hist[c].given # hist[c].got
    BY <1>3, PrefixFacts
  <2> QED
    BY <1>1, <2>1
<1>7. Silent(c)'
  BY <1>1, <1>2, <1>4, <1>5, <1>6 DEF Silent
<1>8. Downward(c)'
  BY <1>1, <1>4, <1>7 DEF Link, Downward
<1> QED
  BY <1>2, <1>8 DEF Link

\* A reply of one piece, and a reply to "list"
LEMMA DueForms ==
  ASSUME Types, NEW c \in Clients, Due(c)
  PROVE  /\ Open(c) => Quiet(c)
         /\ \E x \in {"Y", "N"} :
              /\ hist[c].given = Append(hist[c].got, x)
              /\ \/ /\ client[c].pc = "answer" \/ (client[c].pc = "count" /\ x = "N")
                    /\ hist[c].shown = <<>> /\ hist[c].listed = <<>>
                    /\ \E j \in 0 .. 1 : Moves(c, <<<<x>>>>, 0, j)
                 \/ \E paths \in Listings :
                      /\ hist[c].listed = paths
                      /\ \E i, j \in 0 .. 2 * Len(paths) + 2 :
                           ReadOf(c, paths, i) /\ Moves(c, Reply(paths, x), i, j)
BY DEF Due

\* The octets of a reply of one piece, once some of them came
LEMMA OnePiece ==
  ASSUME Types, NEW c \in Clients, NEW p \in Pieces, Len(p) = 1, Len(p[1]) = 1, NEW j \in 0 .. 1, Moves(c, p, 0, j),
         NEW n \in Nat, NEW cut \in BOOLEAN, NEW o \in Arrived(down[c], n, cut)
  PROVE  j = 1 /\ From(down[c], Len(o)) = <<>> /\ o = p[1]
<1>1. Len(p) = 1 /\ Len(p[0 + 1]) = 1
  OBVIOUS
<1>2. down[c] \in Seq(Octets) /\ Spells(down[c], p, 0, j)
  BY ProgramFacts DEF Moves
<1>3. 0 < j /\ j = 1
  BY <1>1, <1>2, SpellsTake
<1>4. Spells(down[c], p, 0, 0 + 1) /\ 0 \in Nat
  BY <1>2, <1>3
<1>5. Len(down[c]) = 1 /\ From(down[c], Len(down[c])) = <<>>
  BY <1>1, <1>2, <1>4, SpellsOne
<1>6. Len(o) \in 1 .. Len(down[c]) /\ o = SubSeq(down[c], 1, Len(o)) /\ o \in Seq(Octets)
  BY <1>2, ArrivedFacts
<1>7. Len(o) = Len(down[c]) /\ Len(o) = 1
  BY <1>5, <1>6
<1>8. SubSeq(down[c], 1, 1) = p[0 + 1]
  BY <1>1, <1>2, <1>3, SpellsFirst
<1> QED
  BY <1>3, <1>5, <1>6, <1>7, <1>8

LEMMA GetCountLink ==
  ASSUME Types, NEW c \in Clients, Link(c), GetCount(c)
  PROVE  Link(c)' /\ client'[c].pc # "off"
<1>1. PICK o \in Arrived(down[c], 4, FALSE) :
        Gets(c, o) /\ \E n \in Ints(o) : client' = [client EXCEPT ![c].nb = n, ![c].pc = NextPath(n)]
  BY DEF GetCount
<1>2. client[c].pc = "count" /\ UNCHANGED hist /\ 4 \in Nat /\ ClientDoes(c) /\ UNCHANGED up /\ down'[c] = From(down[c], Len(o))
  BY <1>1 DEF GetCount, Gets, Types, LinkTypes
<1>3. PICK cut \in BOOLEAN : ~cut /\ cut = FALSE
  OBVIOUS
<1>4. o \in Arrived(down[c], 4, cut) /\ o \in Seq(Octets)
  BY <1>1, <1>2, <1>3, ArrivedFacts, ProgramFacts
<1>5. Due(c)
  BY <1>2, <1>4, Reading
<1>6. PICK n \in Ints(o) : client' = [client EXCEPT ![c].nb = n, ![c].pc = NextPath(n)]
  BY <1>1
<1>7. n \in Int
  BY <1>4, IntsFacts
<1>8. client'[c].nb = n /\ client'[c].pc = NextPath(n)
  <2>1. PICK s, z : s = Counted(client[c], n, z) /\ z = NextPath(n)
    OBVIOUS
  <2>2. client' = [client EXCEPT ![c] = s]
    BY <1>6, <2>1, Zenon DEF Counted
  <2>3. client'[c] = s /\ client[c] \in Programs
    BY <2>2, ProgramFacts DEF Types, ClientTypes
  <2>4. s.pc = z /\ s.nb = n
    BY <2>1, <2>3, CountedIs
  <2> QED
    BY <2>1, <2>3, <2>4
<1>9. client'[c].pc \in {"size", "answer"}
  BY <1>8 DEF NextPath
<1>10. Open(c) => Quiet(c)
  BY <1>5, DueForms
<1>11. PICK x \in {"Y", "N"} :
        /\ hist[c].given = Append(hist[c].got, x)
        /\ \/ \E j \in 0 .. 1 : Moves(c, <<<<x>>>>, 0, j)
           \/ \E paths \in Listings :
                /\ hist[c].listed = paths
                /\ \E i, j \in 0 .. 2 * Len(paths) + 2 :
                     ReadOf(c, paths, i) /\ Moves(c, Reply(paths, x), i, j)
  BY <1>5, DueForms
<1>12. ASSUME NEW j \in 0 .. 1, Moves(c, <<<<x>>>>, 0, j) PROVE Link(c)' /\ client'[c].pc # "off"
  <2>1. PICK p : p = <<<<x>>>>
    OBVIOUS
  <2>2. Moves(c, p, 0, j)
    BY <1>12, <2>1
  <2>3. p \in Pieces /\ Len(p) = 1 /\ Len(p[1]) = 1
    BY <2>1, AnswerPiece
  <2>4. j = 1 /\ down'[c] = <<>>
    BY <1>2, <1>4, <1>12, <2>2, <2>3, OnePiece
  <2> QED
    BY <1>2, <1>9, <1>10, <1>11, <2>2, <2>3, <2>4, ReadsLast
<1>13. ASSUME NEW paths \in Listings, hist[c].listed = paths,
              NEW i \in 0 .. 2 * Len(paths) + 2, NEW j \in 0 .. 2 * Len(paths) + 2,
              ReadOf(c, paths, i), Moves(c, Reply(paths, x), i, j)
       PROVE  Link(c)' /\ client'[c].pc # "off"
  <2>1. i = 0 /\ hist[c].shown = <<>>
    BY <1>2, <1>13 DEF ReadOf
  <2>2. PICK p : p = Reply(paths, x)
    OBVIOUS
  <2>3. p \in Pieces /\ Len(p) = 2 * Len(paths) + 2 /\ Len(paths) \in Nat /\ p[0 + 1] = Int4(Len(paths))
    BY <2>2, ReplyFacts
  <2>4. Len(paths) < Len(Digits) /\ Len(Int4(Len(paths))) = 4
    BY <2>3, ProtocolAssumption, Int4Facts
  <2>5. o = Int4(Len(paths)) /\ Spells(From(down[c], Len(o)), p, 0 + 1, j)
    <3>1. Spells(down[c], p, 0, j) /\ down[c] \in Seq(Octets)
      BY <1>13, <2>1, <2>2, ProgramFacts DEF Moves
    <3>2. Len(p[0 + 1]) = 4
      BY <2>3, <2>4
    <3>3. o = p[0 + 1] /\ Spells(From(down[c], Len(o)), p, 0 + 1, j)
      BY <1>1, <1>2, <2>3, <3>1, <3>2, SpellsWhole
    <3> QED
      BY <2>3, <3>3
  <2>6. n = Len(paths)
    BY <2>3, <2>4, <2>5, IntsWhole
  <2>7. ReadOf(c, paths, 1)'
    <3>1. CASE n > 0
      <4>1. 0 \in 0 .. Len(paths) - 1 /\ 1 = 2 * 0 + 1 /\ client'[c].pc = "size" /\ client'[c].nb = Len(paths) - 0
        BY <1>8, <2>3, <2>6, <3>1 DEF NextPath
      <4>2. hist'[c].shown = SubSeq(paths, 1, 0)
        BY <1>2, <2>1
      <4> QED
        BY <4>1, <4>2 DEF ReadOf
    <3>2. CASE ~(n > 0)
      <4>1. Len(paths) = 0 /\ client'[c].pc = "answer"
        BY <1>8, <2>3, <2>6, <3>2 DEF NextPath
      <4>2. paths = <<>>
        BY <4>1, ListFacts DEF Pieces
      <4> QED
        BY <1>2, <2>1, <4>1, <4>2 DEF ReadOf
    <3> QED
      BY <3>1, <3>2
  <2>8. IsPrefix(hist'[c].shown, paths)
    BY <1>2, <1>13 DEF Link, Downward
  <2>9. PICK k \in Nat : k = 0
    OBVIOUS
  <2>10. Moves(c, p, k, j) /\ k + 1 < Len(p) /\ Spells(down'[c], p, k + 1, j) /\ ReadOf(c, paths, k + 1)'
    BY <1>2, <1>13, <2>1, <2>2, <2>3, <2>5, <2>7, <2>9
  <2>11. \A f \in {"sent", "done", "given", "got", "listed"} : hist'[c][f] = hist[c][f]
    BY <1>2
  <2> QED
    BY <1>2, <1>9, <1>10, <1>11, <1>13, <2>2, <2>8, <2>10, <2>11, ReadsOn
<1> QED
  BY <1>11, <1>12, <1>13

\* In the middle of a listing, a client reads a size or a path next.
LEMMA InListing ==
  ASSUME Types, NEW c \in Clients, Due(c), client[c].pc \in {"size", "path"}
  PROVE  \E x \in {"Y", "N"}, paths \in Listings, q \in Nat, i \in Nat, j \in Nat :
           /\ hist[c].given = Append(hist[c].got, x) /\ hist[c].listed = paths /\ q < Len(paths)
           /\ j \in 0 .. 2 * Len(paths) + 2 /\ Moves(c, Reply(paths, x), i, j)
           /\ \/ i = 2 * q + 1 /\ client[c].pc = "size"
              \/ i = 2 * q + 2 /\ client[c].pc = "path" /\ client[c].size = Len(paths[q + 1])
           /\ client[c].nb = Len(paths) - q /\ hist[c].shown = SubSeq(paths, 1, q)
<1>1. PICK x \in {"Y", "N"}, paths \in Listings :
        /\ hist[c].given = Append(hist[c].got, x) /\ hist[c].listed = paths
        /\ \E i, j \in 0 .. 2 * Len(paths) + 2 :
             ReadOf(c, paths, i) /\ Moves(c, Reply(paths, x), i, j)
  BY DueForms
<1>2. PICK i \in 0 .. 2 * Len(paths) + 2, j \in 0 .. 2 * Len(paths) + 2 :
        ReadOf(c, paths, i) /\ Moves(c, Reply(paths, x), i, j)
  BY <1>1
<1>3. PICK q \in 0 .. Len(paths) - 1 :
        /\ \/ i = 2 * q + 1 /\ client[c].pc = "size"
           \/ i = 2 * q + 2 /\ client[c].pc = "path" /\ client[c].size = Len(paths[q + 1])
        /\ client[c].nb = Len(paths) - q /\ hist[c].shown = SubSeq(paths, 1, q)
  BY <1>2 DEF ReadOf
<1>4. Len(paths) \in Nat
  BY ListFacts
<1>5. q \in Nat /\ q < Len(paths) /\ i \in Nat /\ j \in Nat
  BY <1>4
<1> QED
  BY <1>1, <1>2, <1>3, <1>5

LEMMA GetSizeLink ==
  ASSUME Types, NEW c \in Clients, Link(c), GetSize(c)
  PROVE  Link(c)' /\ client'[c].pc # "off"
<1>1. PICK o \in Arrived(down[c], 4, FALSE) :
        /\ Gets(c, o)
        /\ \E n \in Ints(o) : client' = IF n > 0 THEN [client EXCEPT ![c].size = n, ![c].pc = "path"] ELSE Left(c)
  BY DEF GetSize
<1>2. client[c].pc = "size" /\ UNCHANGED hist /\ 4 \in Nat /\ ClientDoes(c) /\ UNCHANGED up /\ down'[c] = From(down[c], Len(o))
  BY <1>1 DEF GetSize, Gets, Types, LinkTypes
<1>3. PICK cut \in BOOLEAN : ~cut /\ cut = FALSE
  OBVIOUS
<1>4. o \in Arrived(down[c], 4, cut) /\ down[c] \in Seq(Octets)
  BY <1>1, <1>3, ProgramFacts
<1>5. Due(c)
  BY <1>2, <1>4, Reading
<1>6. Open(c) => Quiet(c)
  BY <1>5, DueForms
<1>7. PICK x \in {"Y", "N"}, paths \in Listings, q \in Nat, i \in Nat, j \in Nat :
        /\ hist[c].given = Append(hist[c].got, x) /\ hist[c].listed = paths /\ q < Len(paths)
        /\ j \in 0 .. 2 * Len(paths) + 2 /\ Moves(c, Reply(paths, x), i, j)
        /\ i = 2 * q + 1
        /\ client[c].nb = Len(paths) - q /\ hist[c].shown = SubSeq(paths, 1, q)
  BY <1>2, <1>5, InListing
<1>8. PICK p : p = Reply(paths, x)
  OBVIOUS
<1>9. q \in 0 .. Len(paths) - 1 /\ Len(paths) \in Nat
  BY <1>7, ListFacts
<1>10. p \in Pieces /\ Len(p) = 2 * Len(paths) + 2 /\ p[i + 1] = Int4(Len(paths[q + 1]))
  <2>1. i + 1 = 2 * q + 2
    BY <1>7
  <2> QED
    BY <1>8, <1>9, <2>1, ReplyFacts
<1>11. PICK l \in Nat : l = Len(paths[q + 1]) /\ l > 0 /\ l < Len(Digits)
  <2>1. paths \in Seq(Seq(Chars) \ {<<>>}) /\ \A h \in DOMAIN paths : Len(paths[h]) < Len(Digits)
    BY ProtocolAssumption
  <2>2. q + 1 \in 1 .. Len(paths)
    BY <1>9
  <2>3. PICK e \in Seq(Chars) : e = paths[q + 1] /\ e # <<>> /\ Len(e) < Len(Digits)
    BY <2>1, <2>2
  <2> QED
    BY <2>3
<1>12. Int4(l) \in Seq(Octets) /\ Len(Int4(l)) = 4 /\ Ints(Int4(l)) = {l}
  BY <1>11, Int4Facts, IntsWhole
<1>13. o = p[i + 1] /\ Spells(From(down[c], Len(o)), p, i + 1, j)
  <2>1. Spells(down[c], p, i, j)
    BY <1>7, <1>8 DEF Moves
  <2>2. Len(p[i + 1]) = 4
    BY <1>10, <1>11, <1>12
  <2> QED
    BY <1>1, <1>2, <1>4, <1>10, <2>1, <2>2, SpellsWhole
<1>14. client' = [client EXCEPT ![c].size = l, ![c].pc = "path"]
  BY <1>1, <1>10, <1>11, <1>12, <1>13
<1>15. client'[c].size = l /\ client'[c].pc = "path" /\ client'[c].nb = Len(paths) - q
  <2>1. PICK s : s = Sized(client[c], l, "path")
    OBVIOUS
  <2>2. client' = [client EXCEPT ![c] = s]
    BY <1>14, <2>1, Zenon DEF Sized
  <2>3. client'[c] = s /\ client[c] \in Programs
    BY <2>2, ProgramFacts DEF Types, ClientTypes
  <2>4. s.pc = "path" /\ s.size = l /\ s.nb = client[c].nb
    BY <2>1, <2>3, SizedIs
  <2> QED
    BY <1>7, <2>3, <2>4
<1>16. ReadOf(c, paths, i + 1)'
  <2>1. i + 1 = 2 * q + 2
    BY <1>7
  <2> QED
    BY <1>2, <1>7, <1>9, <1>11, <1>15, <2>1 DEF ReadOf
<1>17. IsPrefix(hist'[c].shown, paths)
  BY <1>2, <1>7 DEF Link, Downward
<1>18. i + 1 < Len(p)
  BY <1>7, <1>9, <1>10
<1>19. \A f \in {"sent", "done", "given", "got", "listed"} : hist'[c][f] = hist[c][f]
  BY <1>2
<1> QED
  BY <1>2, <1>6, <1>7, <1>8, <1>13, <1>15, <1>16, <1>17, <1>18, <1>19, ReadsOn

LEMMA GetPathLink ==
  ASSUME Types, NEW c \in Clients, Link(c), GetPath(c)
  PROVE  Link(c)' /\ client'[c].pc # "off"
<1>1. PICK o \in Arrived(down[c], client[c].size, Splits) :
        /\ Gets(c, o)
        /\ \/ client' = Left(c) /\ UNCHANGED hist
           \/ /\ ~(Len(o) < client[c].size)
              /\ client' = [client EXCEPT ![c].nb = @ - 1, ![c].pc = NextPath(client[c].nb - 1)]
              /\ hist' = [hist EXCEPT ![c].shown = Append(@, o)]
  BY DEF GetPath
<1>2. client[c].pc = "path" /\ ClientDoes(c) /\ UNCHANGED up /\ down'[c] = From(down[c], Len(o))
  BY <1>1 DEF GetPath, Gets, Types, LinkTypes
<1>3. CASE client' = Left(c) /\ UNCHANGED hist
  <2>1. client'[c].pc = "left"
    BY <1>3, AtPlace DEF Left
  <2> QED
    BY <1>2, <1>3, <2>1, LeftLink
<1>4. CASE /\ ~(Len(o) < client[c].size)
           /\ client' = [client EXCEPT ![c].nb = @ - 1, ![c].pc = NextPath(client[c].nb - 1)]
           /\ hist' = [hist EXCEPT ![c].shown = Append(@, o)]
  <2>1. client[c].size \in Nat /\ Splits \in BOOLEAN /\ down[c] \in Seq(Octets) /\ client[c].nb \in Int /\ hist[c] \in Records
    BY <1>2, ProgramFacts, ProtocolAssumption
  <2>2. Due(c)
    BY <1>2, <2>1, Reading
  <2>3. Open(c) => Quiet(c)
    BY <2>2, DueForms
  <2>4. PICK x \in {"Y", "N"}, paths \in Listings, q \in Nat, i \in Nat, j \in Nat :
          /\ hist[c].given = Append(hist[c].got, x) /\ hist[c].listed = paths /\ q < Len(paths)
          /\ j \in 0 .. 2 * Len(paths) + 2 /\ Moves(c, Reply(paths, x), i, j)
          /\ i = 2 * q + 2 /\ client[c].size = Len(paths[q + 1])
          /\ client[c].nb = Len(paths) - q /\ hist[c].shown = SubSeq(paths, 1, q)
    BY <1>2, <2>2, InListing
  <2>5. PICK p : p = Reply(paths, x)
    OBVIOUS
  <2>6. q \in 0 .. Len(paths) - 1 /\ Len(paths) \in Nat /\ paths \in Pieces
    BY <2>4, ListFacts
  <2>7. p \in Pieces /\ Len(p) = 2 * Len(paths) + 2 /\ p[i + 1] = paths[q + 1]
    <3>1. i + 1 = 2 * q + 3
      BY <2>4
    <3> QED
      BY <2>5, <2>6, <3>1, ReplyFacts
  <2>8. o = paths[q + 1] /\ Spells(down'[c], p, i + 1, j)
    <3>1. Spells(down[c], p, i, j) /\ Len(p[i + 1]) = client[c].size
      BY <2>4, <2>5, <2>7 DEF Moves
    <3>2. Len(o) >= client[c].size
      <4>1. Len(o) \in Nat
        BY <2>1, ArrivedFacts
      <4> QED
        BY <1>4, <2>1, <4>1
    <3>3. o = p[i + 1] /\ Spells(From(down[c], Len(o)), p, i + 1, j)
      BY <2>1, <2>7, <3>1, <3>2, SpellsTake
    <3> QED
      BY <1>2, <2>7, <3>3
  <2>9. PICK n \in Int : n = client[c].nb - 1 /\ n = Len(paths) - (q + 1)
    <3>1. PICK l \in Nat, b \in Int : l = Len(paths) /\ b = client[c].nb /\ b = l - q
      BY <2>1, <2>4, <2>6
    <3>2. b - 1 = l - (q + 1) /\ b - 1 \in Int
      BY <3>1
    <3>3. client[c].nb - 1 \in Int /\ client[c].nb - 1 = Len(paths) - (q + 1)
      BY <3>1, <3>2, Zenon
    <3> QED
      BY <3>3, Zenon
  <2>10. client'[c].nb = n /\ client'[c].pc = NextPath(n)
    <3>1. PICK s, z : s = Counted(client[c], n, z) /\ z = NextPath(n)
      OBVIOUS
    <3>2. client' = [client EXCEPT ![c] = s]
      BY <1>4, <2>9, <3>1, Zenon DEF Counted
    <3>3. client'[c] = s /\ client[c] \in Programs
      BY <3>2, ProgramFacts DEF Types, ClientTypes
    <3>4. s.pc = z /\ s.nb = n
      BY <3>1, <3>3, CountedIs
    <3> QED
      BY <3>1, <3>3, <3>4
  <2>11. hist'[c].shown = SubSeq(paths, 1, q + 1)
    <3>1. hist'[c].shown = Append(hist[c].shown, o)
      BY <1>4, <2>1 DEF Types, LinkTypes, Records
    <3>2. Append(SubSeq(paths, 1, q), paths[q + 1]) = SubSeq(paths, 1, q + 1)
      BY <2>6 DEF Pieces
    <3> QED
      BY <2>4, <2>8, <3>1, <3>2
  <2>12. /\ hist'[c].sent = hist[c].sent /\ hist'[c].done = hist[c].done /\ hist'[c].given = hist[c].given
         /\ hist'[c].got = hist[c].got /\ hist'[c].listed = hist[c].listed
    BY <1>4, <2>1 DEF Types, LinkTypes, Records
  <2>13. IsPrefix(hist'[c].shown, paths)
    BY <2>6, <2>11 DEF IsPrefix, Pieces
  <2>14. ReadOf(c, paths, i + 1)' /\ client'[c].pc \in {"size", "answer"} /\ i + 1 < Len(p)
    <3>1. CASE n > 0
      <4>1. q + 1 \in 0 .. Len(paths) - 1 /\ i + 1 = 2 * (q + 1) + 1 /\ i + 1 < Len(p)
        BY <2>4, <2>6, <2>7, <2>9, <3>1
      <4>2. client'[c].pc = "size"
        BY <2>10, <3>1 DEF NextPath
      <4>3. PICK h \in 0 .. Len(paths) - 1 : h = q + 1
        BY <4>1
      <4>4. i + 1 = 2 * h + 1 /\ client'[c].nb = Len(paths) - h /\ hist'[c].shown = SubSeq(paths, 1, h)
        BY <2>9, <2>10, <2>11, <4>1, <4>3
      <4>5. ReadOf(c, paths, i + 1)'
        BY <4>2, <4>4, Zenon DEF ReadOf
      <4> QED
        BY <4>1, <4>2, <4>5
    <3>2. CASE ~(n > 0)
      <4>1. q + 1 = Len(paths) /\ i + 1 = 2 * Len(paths) + 1 /\ i + 1 < Len(p)
        <5>1. PICK l \in Nat : l = Len(paths)
          BY <2>6
        <5>2. i = 2 * q + 2 /\ q < l /\ n = l - (q + 1)
          BY <2>4, <2>9, <5>1
        <5>3. q + 1 = l /\ i + 1 = 2 * l + 1 /\ i + 1 < 2 * l + 2
          BY <3>2, <5>2
        <5> QED
          BY <2>7, <5>1, <5>3
      <4>2. client'[c].pc = "answer"
        BY <2>10, <3>2 DEF NextPath
      <4>3. SubSeq(paths, 1, Len(paths)) = paths
        BY <2>6, SubSeqFull DEF Pieces
      <4> QED
        BY <2>11, <4>1, <4>2, <4>3 DEF ReadOf
    <3> QED
      BY <3>1, <3>2
  <2>15. \A f \in {"sent", "done", "given", "got", "listed"} : hist'[c][f] = hist[c][f]
    BY <2>12
  <2> QED
    BY <1>2, <2>3, <2>4, <2>5, <2>8, <2>13, <2>14, <2>15, ReadsOn
<1> QED
  BY <1>1, <1>3, <1>4

LEMMA GetAnswerLink ==
  ASSUME Types, NEW c \in Clients, Link(c), GetAnswer(c)
  PROVE  Link(c)' /\ client'[c].pc # "off"
<1>1. PICK o \in Arrived(down[c], 1, FALSE) :
        Gets(c, o) /\ hist' = [hist EXCEPT ![c].got = Append(@, IF o = <<"Y">> THEN "Y" ELSE "N")]
  BY DEF GetAnswer
<1>2. client[c].pc = "answer" /\ 1 \in Nat /\ ClientDoes(c) /\ UNCHANGED up /\ down'[c] = From(down[c], Len(o))
  BY <1>1 DEF GetAnswer, Gets, Types, LinkTypes
<1>3. client'[c].pc = "typing"
  BY AtPlace DEF GetAnswer
<1>4. PICK cut \in BOOLEAN : ~cut /\ cut = FALSE
  OBVIOUS
<1>5. o \in Arrived(down[c], 1, cut) /\ down[c] \in Seq(Octets) /\ hist[c] \in Records
  BY <1>1, <1>4, ProgramFacts
<1>6. Due(c)
  BY <1>2, <1>5, Reading
<1>7. Open(c) => Quiet(c)
  BY <1>6, DueForms
<1>8. PICK x \in {"Y", "N"} :
        /\ hist[c].given = Append(hist[c].got, x)
        /\ \/ hist[c].shown = <<>> /\ hist[c].listed = <<>> /\ \E j \in 0 .. 1 : Moves(c, <<<<x>>>>, 0, j)
           \/ \E paths \in Listings :
                /\ hist[c].listed = paths
                /\ \E i, j \in 0 .. 2 * Len(paths) + 2 :
                     ReadOf(c, paths, i) /\ Moves(c, Reply(paths, x), i, j)
  BY <1>6, DueForms
<1>9. \E p, i, j : p \in Pieces /\ Moves(c, p, i, j) /\ j = Len(p) /\ From(down[c], Len(o)) = <<>> /\ o = <<x>>
                /\ hist[c].shown = hist[c].listed
  <2>1. ASSUME hist[c].shown = <<>>, hist[c].listed = <<>>, NEW j \in 0 .. 1, Moves(c, <<<<x>>>>, 0, j)
        PROVE  \E p, i, k : p \in Pieces /\ Moves(c, p, i, k) /\ k = Len(p) /\ From(down[c], Len(o)) = <<>> /\ o = <<x>>
                               /\ hist[c].shown = hist[c].listed
    <3>1. PICK p : p = <<<<x>>>>
      OBVIOUS
    <3>2. Moves(c, p, 0, j)
      BY <2>1, <3>1
    <3>3. p \in Pieces /\ Len(p) = 1 /\ Len(p[1]) = 1 /\ p[1] = <<x>>
      BY <3>1, AnswerPiece
    <3>4. j = 1 /\ From(down[c], Len(o)) = <<>> /\ o = p[1]
      BY <1>2, <1>5, <2>1, <3>2, <3>3, OnePiece
    <3> QED
      BY <2>1, <3>2, <3>3, <3>4
  <2>2. ASSUME NEW paths \in Listings, hist[c].listed = paths,
               NEW i \in 0 .. 2 * Len(paths) + 2, NEW j \in 0 .. 2 * Len(paths) + 2,
               ReadOf(c, paths, i), Moves(c, Reply(paths, x), i, j)
        PROVE  \E p, l, k : p \in Pieces /\ Moves(c, p, l, k) /\ k = Len(p) /\ From(down[c], Len(o)) = <<>> /\ o = <<x>>
                               /\ hist[c].shown = hist[c].listed
    <3>1. i = 2 * Len(paths) + 1 /\ hist[c].shown = paths
      BY <1>2, <2>2 DEF ReadOf
    <3>2. PICK p : p = Reply(paths, x)
      OBVIOUS
    <3>3. p \in Pieces /\ Len(p) = 2 * Len(paths) + 2 /\ Len(paths) \in Nat /\ p[i + 1] = <<x>>
      <4>1. Len(paths) \in Nat
        BY ListFacts
      <4>2. i + 1 = 2 * Len(paths) + 2
        BY <3>1, <4>1
      <4> QED
        BY <3>2, <4>2, ReplyFacts
    <3>4. Spells(down[c], p, i, j)
      BY <2>2, <3>2 DEF Moves
    <3>5. Len(p[i + 1]) = 1
      BY <3>3, AnswerPiece
    <3>6. o = <<x>> /\ Spells(From(down[c], Len(o)), p, i + 1, j)
      BY <1>1, <1>2, <1>5, <3>3, <3>4, <3>5, SpellsWhole
    <3>7. i + 1 = j /\ j = Len(p)
      <4>1. i + 1 \in 0 .. j
        BY <3>6 DEF Spells
      <4> QED
        BY <3>1, <3>3, <4>1
    <3>8. From(down[c], Len(o)) = <<>>
      <4>1. From(down[c], Len(o)) \in Seq(Octets)
        <5>1. Len(o) \in Nat
          BY <1>2, <1>5, ArrivedFacts
        <5> QED
          BY <1>5, <5>1, FromFacts
      <4> QED
        BY <3>3, <3>6, <3>7, <4>1, SpellsNone
    <3> QED
      BY <2>2, <3>1, <3>2, <3>3, <3>6, <3>7, <3>8
  <2> QED
    BY <1>8, <2>1, <2>2
<1>10. PICK p, i, j : p \in Pieces /\ Moves(c, p, i, j) /\ j = Len(p) /\ From(down[c], Len(o)) = <<>> /\ o = <<x>>
                                 /\ hist[c].shown = hist[c].listed
  BY <1>9
<1>11. hist' = [hist EXCEPT ![c].got = Append(@, x)]
  <2>1. (IF o = <<"Y">> THEN "Y" ELSE "N") = x
    BY <1>10
  <2> QED
    BY <1>1, <2>1, Zenon
<1>12. /\ hist'[c].sent = hist[c].sent /\ hist'[c].done = hist[c].done /\ hist'[c].given = hist[c].given
       /\ hist'[c].listed = hist[c].listed /\ hist'[c].shown = hist[c].shown /\ hist'[c].got = hist[c].given
  BY <1>5, <1>8, <1>11 DEF Types, LinkTypes, Records
<1>13. \A f \in {"sent", "done", "given", "listed", "shown"} : hist'[c][f] = hist[c][f]
  BY <1>12
<1> QED
  BY <1>2, <1>3, <1>7, <1>8, <1>10, <1>12, <1>13, ReadsLast

LEMMA GetEndsLink ==
  ASSUME Types, NEW c \in Clients, Link(c), GetEnds(c)
  PROVE  Link(c)' /\ client'[c].pc # "off"
<1>1. /\ client[c].pc \in {"count", "size", "path", "answer"} /\ down[c] = <<>> /\ ~Open(c) /\ ClientDoes(c)
      /\ UNCHANGED <<up, down, hist>>
  BY DEF GetEnds, Closed, Open
<1>2. client'[c].pc = (IF client[c].pc = "answer" THEN "typing" ELSE "left")
  BY AtPlace DEF GetEnds
<1>3. Served(c)' /\ (Open(c)' <=> Open(c))
  BY <1>1, <1>2, ServedClient DEF Link
<1>4. Upward(c)'
  BY <1>1, <1>3 DEF Link, Upward
<1>5. Silent(c)'
  <2>1. hist[c].sent = hist[c].done /\ hist[c].got = hist[c].given => hist[c].shown = hist[c].listed
    <3>1. CASE Silent(c)
      BY <3>1 DEF Silent
    <3>2. CASE Due(c)
      <4>1. PICK x \in {"Y", "N"} : hist[c].given = Append(hist[c].got, x)
        BY <3>2 DEF Due
      <4>2. hist[c].got \in Seq(Outcomes) /\ x \in Outcomes
        BY ProgramFacts DEF Records, Outcomes
      <4>3. Append(hist[c].got, x) # hist[c].got
        BY <4>2, PrefixFacts
      <4> QED
        BY <4>1, <4>3
    <3> QED
      BY <1>1, <3>1, <3>2 DEF Link, Downward
  <2> QED
    BY <1>1, <1>3, <2>1 DEF Link, Downward, Silent
<1> QED
  BY <1>1, <1>2, <1>3, <1>4, <1>5 DEF Link, Downward

----------------------------------------------------------------------------
(* Every step *)

\* A step of a thread is about its own connection.
LEMMA ThreadFrame ==
  ASSUME Types, NEW t \in Clients, Served(t), ThreadStep(t)
  PROVE  /\ \A d \in Clients \ {t} : Untouched(d)
         /\ Living /\ thread[t].pc # "off" /\ UNCHANGED <<backlog, infos, client, mixed>>
<1>1. thread[t].serves = t
  BY DEF Served
<1>2. /\ thread \in [Clients -> Threads] /\ hist \in [Clients -> Records]
      /\ up \in [Clients -> Seq(Octets)] /\ down \in [Clients -> Seq(Octets)]
  BY DEF Types, ThreadTypes, LinkTypes
<1>3. CASE CopyInfos(t)
  <2>1. \A d \in Clients \ {t} : thread'[d] = thread[d]
    BY <1>2, <1>3 DEF CopyInfos
  <2> QED
    BY <1>3, <2>1 DEF CopyInfos, Untouched, links, accept, marks
<1>4. ASSUME NEW o, Receives(t, o), \A d \in Clients \ {t} : thread'[d] = thread[d],
             UNCHANGED hungup \/ hungup' = hungup \cup {t}
      PROVE  /\ \A d \in Clients \ {t} : Untouched(d)
             /\ UNCHANGED <<backlog, infos, client, mixed>>
  <2>1. \A d \in Clients \ {t} : up'[d] = up[d]
    BY <1>1, <1>2, <1>4 DEF Receives
  <2> QED
    BY <1>4, <2>1 DEF Receives, Untouched, accept, marks
<1>5. FromClient(t, 1, FALSE) # {} \/ FromClient(t, 4, FALSE) # {} \/ FromClient(t, thread[t].size, Splits) # {} => Living
  BY DEF FromClient
<1>6. CASE RecvOp(t)
  <2>1. \A d \in Clients \ {t} : thread'[d] = thread[d]
    BY <1>2, <1>6 DEF RecvOp
  <2> QED
    BY <1>4, <1>5, <1>6, <2>1 DEF RecvOp
<1>7. CASE RecvFlag(t)
  <2>1. \A d \in Clients \ {t} : thread'[d] = thread[d]
    BY <1>2, <1>7 DEF RecvFlag
  <2> QED
    BY <1>4, <1>5, <1>7, <2>1 DEF RecvFlag
<1>8. CASE RecvSize(t)
  <2>1. \A d \in Clients \ {t} : thread'[d] = thread[d]
    BY <1>2, <1>8 DEF RecvSize
  <2> QED
    BY <1>4, <1>5, <1>8, <2>1 DEF RecvSize
<1>9. CASE RecvPath(t)
  <2>1. \A d \in Clients \ {t} : thread'[d] = thread[d]
    BY <1>2, <1>9 DEF RecvPath, CloseClient
  <2>2. UNCHANGED hungup \/ hungup' = hungup \cup {t}
    BY <1>1, <1>9 DEF RecvPath, CloseClient
  <2> QED
    BY <1>4, <1>5, <1>9, <2>1, <2>2 DEF RecvPath
<1>10. CASE RecvEnds(t)
  <2>1. \A d \in Clients \ {t} : thread'[d] = thread[d]
    BY <1>2, <1>10 DEF RecvEnds, CloseClient
  <2> QED
    BY <1>1, <1>10, <2>1 DEF RecvEnds, CloseClient, Untouched, accept, marks
<1>11. CASE DoCommand(t) \/ DoList(t) \/ DoKill(t)
  <2>1. Living /\ thread[t].pc = "do" /\ \E x, paths, sends : Does(t, x, paths, sends)
    BY <1>11, Zenon DEF DoCommand, DoList, DoKill
  <2>2. PICK x, paths, sends : Does(t, x, paths, sends)
    BY <2>1
  <2>3. \A d \in Clients \ {t} : thread'[d] = thread[d]
    BY <1>2, <2>2 DEF Does
  <2>4. \A d \in Clients \ {t} : hist'[d] = hist[d]
    BY <1>1, <1>2, <2>2 DEF Does
  <2> QED
    BY <2>1, <2>2, <2>3, <2>4 DEF Does, Untouched, links, accept, marks
<1>12. CASE SendOut(t)
  <2>1. \A d \in Clients \ {t} : thread'[d] = thread[d]
    BY <1>2, <1>12 DEF SendOut
  <2>2. \A d \in Clients \ {t} : down'[d] = down[d]
    BY <1>1, <1>2, <1>12 DEF SendOut
  <2>3. \A d \in Clients \ {t} : (d \in hungup' <=> d \in hungup) /\ (d \in reset' <=> d \in reset)
    BY <1>1, <1>12 DEF SendOut
  <2> QED
    BY <1>12, <2>1, <2>2, <2>3 DEF SendOut, Untouched, accept, marks
<1> QED
  BY <1>3, <1>6, <1>7, <1>8, <1>9, <1>10, <1>11, <1>12 DEF ThreadStep

\* No step of a thread makes it one that has not looked at infos_client.
LEMMA ThreadLooks ==
  ASSUME Types, NEW t \in Clients,
         CopyInfos(t) \/ RecvOp(t) \/ RecvFlag(t) \/ RecvSize(t) \/ RecvPath(t) \/ RecvEnds(t)
  PROVE  thread'[t].pc # "new"
<1>1. thread \in [Clients -> Threads]
  BY DEF Types, ThreadTypes
<1>2. CASE CopyInfos(t)
  <2>1. PICK c : thread' = [thread EXCEPT ![t] = Serving(thread[t], c, "op")]
    BY <1>2, Zenon DEF CopyInfos, Serving
  <2>2. thread'[t].pc = "op"
    BY <1>1, <2>1, ServingIs
  <2> QED
    BY <2>2
<1>3. ASSUME NEW q, NEW p, thread' = [thread EXCEPT ![t] = Asked(thread[t], q, p)]
      PROVE  thread'[t].pc = p
  BY <1>3, <1>1, AskedIs
<1>4. CASE RecvOp(t)
  <2>1. PICK q, p : thread' = [thread EXCEPT ![t] = Asked(thread[t], q, p)] /\ p \in {"flag", "do", "op"}
    <3>1. PICK o \in FromClient(t, 1, FALSE) :
            thread' = [thread EXCEPT ![t].req = [None EXCEPT !.op = o[1]],
                                     ![t].pc = IF o[1] \in {"S", "R", "D"} THEN "flag"
                                               ELSE IF o[1] \in {"K", "E", "L"} THEN "do" ELSE "op"]
      BY <1>4 DEF RecvOp
    <3>2. PICK p : p = IF o[1] \in {"S", "R", "D"} THEN "flag" ELSE IF o[1] \in {"K", "E", "L"} THEN "do" ELSE "op"
      OBVIOUS
    <3>3. thread' = [thread EXCEPT ![t] = Asked(thread[t], [None EXCEPT !.op = o[1]], p)]
      BY <3>1, <3>2, Zenon DEF Asked
    <3> QED
      BY <3>2, <3>3
  <2> QED
    BY <1>3, <2>1
<1>5. CASE RecvFlag(t)
  <2>1. PICK f, p : thread' = [thread EXCEPT ![t].req.flag = f, ![t].pc = p] /\ p \in {"size", "do"}
    BY <1>5 DEF RecvFlag, AfterFlag
  <2>2. thread' = [thread EXCEPT ![t] = Asked(thread[t], [thread[t].req EXCEPT !.flag = f], p)]
    BY <2>1, Zenon DEF Asked
  <2> QED
    BY <1>3, <2>1, <2>2
<1>6. CASE RecvSize(t)
  BY <1>1, <1>6 DEF RecvSize, Threads
<1>7. CASE RecvPath(t)
  BY <1>1, <1>7 DEF RecvPath, CloseClient, Threads
<1>8. CASE RecvEnds(t)
  BY <1>1, <1>8 DEF RecvEnds, CloseClient, Threads
<1> QED
  BY <1>2, <1>4, <1>5, <1>6, <1>7, <1>8

LEMMA ThreadLink ==
  ASSUME Types, NEW t \in Clients, Accepting, Link(t), ThreadStep(t)
  PROVE  Link(t)' /\ thread'[t].pc # "new"
BY ThreadLooks, CopyInfosLink, RecvOpLink, RecvFlagLink, RecvSizeLink, RecvPathLink, RecvEndsLink, DoLink, SendOutLink
   DEF ThreadStep

LEMMA ThreadInSteps ==
  ASSUME Types, NEW t \in Clients, Accepting, \A c \in Clients : Link(c), ThreadStep(t)
  PROVE  Accepting' /\ \A c \in Clients : Link(c)'
<1>1. Link(t)' /\ thread'[t].pc # "new"
  BY ThreadLink
<1>2. /\ \A d \in Clients \ {t} : Untouched(d)
      /\ Living /\ thread[t].pc # "off" /\ UNCHANGED <<backlog, infos, client, mixed>>
  BY ThreadFrame DEF Link
<1>3. \A d \in Clients \ {t} : Link(d)'
  BY <1>2, LinkStays
<1>4. Accepting'
  <2>1. backlog \in Seq(Clients)
    BY DEF Types, LinkTypes
  <2>2. \A d \in Clients : /\ thread[d].pc = "off" => thread'[d].pc = "off" /\ (d \in hungup' <=> d \in hungup)
                           /\ thread'[d].pc = "new" => thread[d].pc = "new"
                           /\ client[d].pc # "off" => client'[d].pc # "off"
    BY <1>1, <1>2 DEF Untouched
  <2> QED
    BY <1>2, <2>1, <2>2, AcceptingStays
<1> QED
  BY <1>1, <1>3, <1>4

\* A step of a client is about its own connection.
LEMMA ClientFrame ==
  ASSUME Types, NEW c \in Clients, ClientStep(c)
  PROVE  /\ ClientDoes(c) /\ \A d \in Clients \ {c} : Untouched(d)
         /\ UNCHANGED backlog \/ (client[c].pc = "off" /\ backlog' = Append(backlog, c))
<1>1. /\ client \in [Clients -> Programs] /\ hist \in [Clients -> Records]
      /\ up \in [Clients -> Seq(Octets)] /\ down \in [Clients -> Seq(Octets)]
  BY DEF Types, ClientTypes, LinkTypes
<1>2. ASSUME ClientDoes(c), \A d \in Clients \ {c} : client'[d] = client[d] /\ hist'[d] = hist[d],
             \A d \in Clients \ {c} : up'[d] = up[d] /\ down'[d] = down[d]
      PROVE  \A d \in Clients \ {c} : Untouched(d)
  BY <1>2 DEF ClientDoes, Untouched
<1>3. \A p : client' = At(c, p) => \A d \in Clients \ {c} : client'[d] = client[d]
  BY <1>1 DEF At
<1>4. CASE Connect(c)
  <2>1. \A d \in Clients \ {c} : client'[d] = client[d]
    BY <1>1, <1>4 DEF Connect
  <2> QED
    BY <1>2, <1>4, <2>1 DEF Connect
<1>5. CASE \E r \in Requests[c] : Type(c, r)
  <2>1. PICK r \in Requests[c] : Type(c, r)
    BY <1>5
  <2>2. \A d \in Clients \ {c} : client'[d] = client[d]
    BY <1>1, <2>1 DEF Type
  <2> QED
    BY <1>2, <2>1, <2>2 DEF Type
<1>6. CASE TypeNothing(c)
  <2>1. \A d \in Clients \ {c} : client'[d] = client[d]
    BY <1>1, <1>6 DEF TypeNothing
  <2> QED
    BY <1>2, <1>6, <2>1 DEF TypeNothing
<1>7. CASE Leave(c)
  <2>1. \A d \in Clients \ {c} : client'[d] = client[d] /\ down'[d] = down[d]
    BY <1>1, <1>3, <1>7 DEF Leave, Left
  <2> QED
    BY <1>2, <1>7, <2>1 DEF Leave
<1>8. CASE SendTodo(c)
  <2>1. \A d \in Clients \ {c} : client'[d] = client[d]
    BY <1>1, <1>3, <1>8 DEF SendTodo, Left
  <2>2. \A d \in Clients \ {c} : hist'[d] = hist[d]
    BY <1>1, <1>8 DEF SendTodo
  <2>3. \A d \in Clients \ {c} : up'[d] = up[d] /\ down'[d] = down[d]
    BY <1>1, <1>8 DEF SendTodo
  <2> QED
    BY <1>2, <1>8, <2>1, <2>2, <2>3 DEF SendTodo
<1>9. ASSUME NEW o, Gets(c, o), \A d \in Clients \ {c} : client'[d] = client[d] /\ hist'[d] = hist[d]
      PROVE  /\ ClientDoes(c) /\ \A d \in Clients \ {c} : Untouched(d)
             /\ UNCHANGED backlog
  <2>1. \A d \in Clients \ {c} : up'[d] = up[d] /\ down'[d] = down[d]
    BY <1>1, <1>9 DEF Gets
  <2> QED
    BY <1>2, <1>9, <2>1 DEF Gets
<1>10. CASE GetCount(c)
  <2>1. \A d \in Clients \ {c} : client'[d] = client[d]
    BY <1>1, <1>10 DEF GetCount
  <2> QED
    BY <1>9, <1>10, <2>1 DEF GetCount
<1>11. CASE GetSize(c)
  <2>1. \A d \in Clients \ {c} : client'[d] = client[d]
    BY <1>1, <1>3, <1>11 DEF GetSize, Left
  <2> QED
    BY <1>9, <1>11, <2>1 DEF GetSize
<1>12. CASE GetPath(c)
  <2>1. \A d \in Clients \ {c} : client'[d] = client[d]
    BY <1>1, <1>3, <1>12 DEF GetPath, Left
  <2>2. \A d \in Clients \ {c} : hist'[d] = hist[d]
    BY <1>1, <1>12 DEF GetPath
  <2> QED
    BY <1>9, <1>12, <2>1, <2>2 DEF GetPath
<1>13. CASE GetAnswer(c)
  <2>1. \A d \in Clients \ {c} : client'[d] = client[d]
    BY <1>3, <1>13 DEF GetAnswer
  <2>2. \A d \in Clients \ {c} : hist'[d] = hist[d]
    BY <1>1, <1>13 DEF GetAnswer
  <2> QED
    BY <1>9, <1>13, <2>1, <2>2 DEF GetAnswer
<1>14. CASE GetEnds(c)
  <2>1. \A d \in Clients \ {c} : client'[d] = client[d]
    BY <1>3, <1>14 DEF GetEnds
  <2> QED
    BY <1>2, <1>14, <2>1 DEF GetEnds
<1> QED
  BY <1>4, <1>5, <1>6, <1>7, <1>8, <1>10, <1>11, <1>12, <1>13, <1>14 DEF ClientStep, ClientReads

LEMMA ClientLink ==
  ASSUME Types, NEW c \in Clients, Link(c), ClientStep(c)
  PROVE  Link(c)' /\ client'[c].pc # "off"
BY PromptsLink, SendTodoLink, GetCountLink, GetSizeLink, GetPathLink, GetAnswerLink, GetEndsLink
   DEF ClientStep, ClientReads

LEMMA ClientInSteps ==
  ASSUME Types, NEW c \in Clients, Accepting, \A d \in Clients : Link(d), ClientStep(c)
  PROVE  Accepting' /\ \A d \in Clients : Link(d)'
<1>1. Link(c)' /\ client'[c].pc # "off"
  BY ClientLink
<1>2. /\ ClientDoes(c) /\ \A d \in Clients \ {c} : Untouched(d)
      /\ UNCHANGED backlog \/ (client[c].pc = "off" /\ backlog' = Append(backlog, c))
  BY ClientFrame
<1>3. Living' => Living
  BY <1>2 DEF ClientDoes, Living
<1>4. \A d \in Clients \ {c} : Link(d)'
  BY <1>2, <1>3, LinkStays
<1>5. \A d \in Clients : client[d].pc # "off" => client'[d].pc # "off"
  BY <1>1, <1>2 DEF Untouched
<1>6. backlog \in Seq(Clients) /\ UNCHANGED <<infos, thread, hungup>>
  BY <1>2 DEF Types, LinkTypes, ClientDoes
<1>7. CASE UNCHANGED backlog
  BY <1>1, <1>4, <1>5, <1>6, <1>7, AcceptingStays
<1>8. CASE client[c].pc = "off" /\ backlog' = Append(backlog, c)
  <2>1. thread[c].pc = "off" /\ c \notin hungup
    BY <1>8 DEF Link, Served
  <2>2. \A i \in DOMAIN backlog : backlog[i] # c
    BY <1>8 DEF Accepting
  <2>3. PICK b \in Seq(Clients) : b = Append(backlog, c) /\ Len(b) = Len(backlog) + 1 /\ b[Len(backlog) + 1] = c
                                  /\ \A i \in 1 .. Len(backlog) : b[i] = backlog[i]
    <3>1. /\ Append(backlog, c) \in Seq(Clients) /\ Len(Append(backlog, c)) = Len(backlog) + 1
          /\ Append(backlog, c)[Len(backlog) + 1] = c
          /\ \A i \in 1 .. Len(backlog) : Append(backlog, c)[i] = backlog[i]
      BY <1>6
    <3> QED
      BY <3>1, Zenon
  <2>4. DOMAIN b = 1 .. Len(backlog) + 1 /\ DOMAIN backlog = 1 .. Len(backlog) /\ Len(backlog) \in Nat
    BY <1>6, <2>3
  <2>5. \A i \in DOMAIN b : i \in DOMAIN backlog \/ i = Len(backlog) + 1
    BY <2>4
  <2>6. IsInjective(b)
    BY <2>2, <2>3, <2>4, <2>5 DEF Accepting, IsInjective
  <2>7. \A i \in DOMAIN b : thread[b[i]].pc = "off" /\ client'[b[i]].pc # "off" /\ b[i] \notin hungup
    BY <1>1, <1>5, <1>6, <2>1, <2>3, <2>4, <2>5 DEF Accepting
  <2>8. backlog' = b
    BY <1>8, <2>3
  <2> QED
    BY <1>1, <1>4, <1>6, <2>6, <2>7, <2>8 DEF Accepting
<1> QED
  BY <1>2, <1>7, <1>8

\* The first of those that are connected becomes the client in infos_client.
LEMMA Accepted ==
  ASSUME Types, Accepting, Accept \/ AcceptFails
  PROVE  /\ Head(backlog) \in Clients /\ thread[Head(backlog)].pc = "off" /\ client[Head(backlog)].pc # "off"
         /\ Head(backlog) \notin hungup
         /\ \A i \in DOMAIN Tail(backlog) : \E h \in DOMAIN backlog :
              h = i + 1 /\ Tail(backlog)[i] = backlog[h] /\ backlog[h] # Head(backlog)
         /\ IsInjective(Tail(backlog))
         /\ infos' = {Head(backlog)} /\ backlog' = Tail(backlog)
         /\ ~mixed' => \A t \in Clients : thread[t].pc # "new"
<1>1. backlog \in Seq(Clients) /\ backlog # <<>>
  BY DEF Types, LinkTypes, Accept, AcceptFails
<1>2. 1 \in DOMAIN backlog /\ Head(backlog) = backlog[1] /\ Head(backlog) \in Clients
  BY <1>1
<1>3. PICK b \in Seq(Clients) : b = Tail(backlog) /\ Len(b) = Len(backlog) - 1 /\ \A i \in 1 .. Len(b) : b[i] = backlog[i + 1]
  <2>1. /\ Tail(backlog) \in Seq(Clients) /\ Len(Tail(backlog)) = Len(backlog) - 1
        /\ \A i \in 1 .. Len(Tail(backlog)) : Tail(backlog)[i] = backlog[i + 1]
    BY <1>1
  <2> QED
    BY <2>1, Zenon
<1>4. \A i \in DOMAIN b : i + 1 \in DOMAIN backlog /\ b[i] = backlog[i + 1] /\ i + 1 # 1
  BY <1>1, <1>3
<1>5. \A i \in DOMAIN b : backlog[i + 1] # Head(backlog)
  BY <1>2, <1>4 DEF Accepting, IsInjective
<1>6. IsInjective(b)
  <2> SUFFICES ASSUME NEW i \in DOMAIN b, NEW h \in DOMAIN b, b[i] = b[h] PROVE i = h
    BY DEF IsInjective
  <2>1. i + 1 = h + 1
    BY <1>4 DEF Accepting, IsInjective
  <2> QED
    BY <1>3, <2>1
<1> QED
  BY <1>2, <1>3, <1>4, <1>5, <1>6 DEF Accepting, Accept, AcceptFails

LEMMA AcceptInSteps ==
  ASSUME Types, Accepting, \A c \in Clients : Link(c), Accept, ~mixed'
  PROVE  Accepting' /\ \A c \in Clients : Link(c)'
<1>1. PICK c \in Clients : /\ c = Head(backlog) /\ thread[c].pc = "off" /\ client[c].pc # "off" /\ c \notin hungup
                           /\ infos' = {c} /\ backlog' = Tail(backlog)
                           /\ \A t \in Clients : thread[t].pc # "new"
  BY Accepted
<1>2. thread' = [thread EXCEPT ![c].pc = "new"] /\ UNCHANGED <<proc, client, up, down, hungup, reset, refused, hist>> /\ Living
  BY <1>1 DEF Accept, links
<1>3. thread'[c].pc = "new" /\ thread'[c].serves = thread[c].serves /\ thread'[c].req = thread[c].req
      /\ thread'[c].out = thread[c].out /\ \A d \in Clients \ {c} : thread'[d] = thread[d]
  BY <1>2 DEF Types, ThreadTypes, Threads
<1>4. \A d \in Clients \ {c} : Link(d)'
  <2>1. \A d \in Clients \ {c} : Untouched(d)
    BY <1>2, <1>3 DEF Untouched
  <2> QED
    BY <1>2, <2>1, LinkStays DEF Living
<1>5. Open(c) /\ Open(c)' /\ Served(c) /\ Upward(c) /\ Downward(c)
  BY <1>1, <1>2 DEF Open, Living, Link
<1>6. Served(c)'
  BY <1>1, <1>2, <1>3, <1>5 DEF Served
<1>7. Quiet(c) => Quiet(c)'
  BY <1>2, <1>3 DEF Quiet
<1>8. Upward(c)'
  <2>1. ASSUME Carried(c) PROVE Carried(c)'
    <3>1. \A r, k : SentOf(c, r, k) => SentOf(c, r, k)'
      BY <1>2 DEF SentOf
    <3>2. \A r, m : ReceivedOf(c, r, m) => ReceivedOf(c, r, m)'
      BY <1>1, <1>3 DEF ReceivedOf
    <3> QED
      BY <1>2, <2>1, <3>1, <3>2, Zenon DEF Carried
  <2> QED
    BY <1>2, <1>5, <1>7, <2>1 DEF Upward
<1>9. Downward(c)'
  <2>1. ~Due(c)
    <3>1. \A p, i, j : ~Moves(c, p, i, j)
      BY <1>1, <1>5 DEF Moves
    <3> QED
      BY <3>1, Zenon DEF Due
  <2>2. Silent(c) => Silent(c)'
    BY <1>2, <1>3, <1>5, <1>7 DEF Silent
  <2> QED
    BY <1>2, <1>5, <2>1, <2>2 DEF Downward
<1>10. Accepting'
  <2>1. \A i \in DOMAIN backlog' : \E h \in DOMAIN backlog : backlog'[i] = backlog[h] /\ backlog[h] # c
    BY <1>1, Accepted
  <2>2. \A i \in DOMAIN backlog : backlog[i] \in Clients
    BY DEF Types, LinkTypes
  <2>3. IsInjective(backlog')
    BY <1>1, Accepted
  <2>4. \A i \in DOMAIN backlog' : /\ thread'[backlog'[i]].pc = "off" /\ client'[backlog'[i]].pc # "off"
                                   /\ backlog'[i] \notin hungup'
    BY <1>2, <1>3, <2>1, <2>2 DEF Accepting
  <2>5. \A t \in Clients : thread'[t].pc = "new" => infos' = {t}
    BY <1>1, <1>3
  <2> QED
    BY <2>3, <2>4, <2>5 DEF Accepting
<1> QED
  BY <1>4, <1>6, <1>8, <1>9, <1>10 DEF Link

LEMMA AcceptFailsInSteps ==
  ASSUME Types, Accepting, \A c \in Clients : Link(c), AcceptFails, ~mixed'
  PROVE  Accepting' /\ \A c \in Clients : Link(c)'
<1>1. PICK c \in Clients : /\ c = Head(backlog) /\ thread[c].pc = "off" /\ client[c].pc # "off" /\ c \notin hungup
                           /\ infos' = {c} /\ backlog' = Tail(backlog)
                           /\ \A t \in Clients : thread[t].pc # "new"
  BY Accepted
<1>2. hungup' = hungup \cup {c} /\ UNCHANGED <<proc, client, thread, up, down, reset, refused, hist>> /\ Living
  BY <1>1 DEF AcceptFails
<1>3. \A d \in Clients \ {c} : Link(d)'
  <2>1. \A d \in Clients \ {c} : Untouched(d)
    BY <1>2 DEF Untouched
  <2> QED
    BY <1>2, <2>1, LinkStays DEF Living
<1>4. Open(c) /\ ~Open(c)' /\ Served(c) /\ Upward(c) /\ Downward(c)
  BY <1>1, <1>2 DEF Open, Living, Link
<1>5. Served(c)' /\ Upward(c)'
  BY <1>1, <1>2, <1>4 DEF Served, Upward
<1>6. Downward(c)'
  <2>1. ~Due(c)
    <3>1. \A p, i, j : ~Moves(c, p, i, j)
      BY <1>1, <1>4 DEF Moves
    <3> QED
      BY <3>1, Zenon DEF Due
  <2>2. Silent(c) => Silent(c)'
    BY <1>2, <1>4 DEF Silent
  <2> QED
    BY <1>2, <1>4, <2>1, <2>2 DEF Downward
<1>7. Accepting'
  <2>1. \A i \in DOMAIN backlog' : \E h \in DOMAIN backlog : backlog'[i] = backlog[h] /\ backlog[h] # c
    BY <1>1, Accepted
  <2>2. IsInjective(backlog')
    BY <1>1, Accepted
  <2>3. \A i \in DOMAIN backlog' : /\ thread'[backlog'[i]].pc = "off" /\ client'[backlog'[i]].pc # "off"
                                   /\ backlog'[i] \notin hungup'
    BY <1>2, <2>1 DEF Accepting
  <2>4. \A t \in Clients : thread'[t].pc # "new"
    BY <1>1, <1>2
  <2> QED
    BY <2>2, <2>3, <2>4 DEF Accepting
<1> QED
  BY <1>3, <1>4, <1>5, <1>6, <1>7 DEF Link

\* A step that is no thread's, no client's and not of the accept loop
LEMMA RestInSteps ==
  ASSUME Types, Accepting, \A c \in Clients : Link(c), MainExits \/ AcceptEnds \/ UNCHANGED vars
  PROVE  Accepting' /\ \A c \in Clients : Link(c)'
<1>1. UNCHANGED <<backlog, infos, thread, client, up, down, hungup, reset, refused, hist>>
  BY DEF MainExits, AcceptEnds, vars, links, accept, marks
<1>2. Living' => Living
  BY DEF MainExits, AcceptEnds, vars, Living
<1>3. \A d \in Clients : Untouched(d)
  BY <1>1 DEF Untouched
<1>4. \A d \in Clients : Link(d)'
  BY <1>2, <1>3, LinkStays
<1>5. Accepting'
  BY <1>1 DEF Accepting
<1> QED
  BY <1>4, <1>5

\* Once a client was accepted before a thread had looked, that is remembered.
LEMMA MixedStays ==
  ASSUME Types, [Next]_vars, ~mixed'
  PROVE  ~mixed
<1>1. CASE Accept \/ AcceptFails
  BY <1>1, Zenon DEF Accept, AcceptFails
<1>2. CASE MainExits \/ AcceptEnds \/ UNCHANGED vars
  BY <1>2, Zenon DEF MainExits, AcceptEnds, vars, marks
<1>3. ASSUME NEW t \in Clients, ThreadStep(t) PROVE ~mixed
  BY <1>3, Zenon DEF ThreadStep, CopyInfos, RecvOp, RecvFlag, RecvSize, RecvPath, RecvEnds, Receives,
                     DoCommand, DoList, DoKill, Does, SendOut, marks
<1>4. ASSUME NEW c \in Clients, ClientStep(c) PROVE ~mixed
  BY <1>4, Zenon DEF ClientStep, ClientReads, ClientDoes, Connect, Type, TypeNothing, Leave, SendTodo, Gets,
                     GetCount, GetSize, GetPath, GetAnswer, GetEnds
<1> QED
  BY <1>1, <1>2, <1>3, <1>4, Zenon DEF Next

LEMMA InStepsInit == Init => InSteps
<1> SUFFICES ASSUME Init PROVE InSteps
  OBVIOUS
<1>1. /\ backlog = <<>> /\ hungup = {} /\ reset = {}
      /\ \A c \in Clients :
           /\ thread[c].pc = "off" /\ thread[c].serves = c /\ client[c].pc = "off"
           /\ up[c] = <<>> /\ down[c] = <<>>
           /\ hist[c] = [sent |-> <<>>, done |-> <<>>, given |-> <<>>, got |-> <<>>, listed |-> <<>>, shown |-> <<>>]
  BY DEF Init
<1>2. Accepting
  BY <1>1 DEF Accepting, IsInjective
<1>3. ASSUME NEW c \in Clients PROVE Link(c)
  <2>1. IsPrefix(<<>>, <<>>)
    BY DEF IsPrefix
  <2>2. Served(c)
    BY <1>1 DEF Served
  <2>3. Quiet(c)
    BY <1>1 DEF Quiet
  <2>4. Silent(c)
    BY <1>1, <2>1 DEF Silent
  <2> QED
    BY <1>1, <2>1, <2>2, <2>3, <2>4 DEF Link, Upward, Downward
<1> QED
  BY <1>2, <1>3 DEF InSteps

LEMMA InStepsNext == Types /\ InSteps /\ [Next]_vars => InSteps'
<1> SUFFICES ASSUME Types, InSteps, [Next]_vars, ~mixed' PROVE Accepting' /\ \A c \in Clients : Link(c)'
  BY DEF InSteps
<1>1. Accepting /\ \A c \in Clients : Link(c)
  BY MixedStays DEF InSteps
<1>2. CASE Accept
  BY <1>1, <1>2, AcceptInSteps
<1>3. CASE AcceptFails
  BY <1>1, <1>3, AcceptFailsInSteps
<1>4. CASE MainExits \/ AcceptEnds \/ UNCHANGED vars
  BY <1>1, <1>4, RestInSteps
<1>5. ASSUME NEW t \in Clients, ThreadStep(t) PROVE Accepting' /\ \A c \in Clients : Link(c)'
  BY <1>1, <1>5, ThreadInSteps
<1>6. ASSUME NEW c \in Clients, ClientStep(c) PROVE Accepting' /\ \A d \in Clients : Link(d)'
  BY <1>1, <1>6, ClientInSteps
<1> QED
  BY <1>2, <1>3, <1>4, <1>5, <1>6 DEF Next

LEMMA BreaksNext == Types /\ InSteps /\ OnlyListsBreak /\ [Next]_vars => OnlyListsBreak'
<1> SUFFICES ASSUME Types, InSteps, OnlyListsBreak, [Next]_vars, ~mixed', proc' = "broken"
             PROVE  \E t \in Clients : thread'[t].req.op = "L" /\ thread'[t].serves \in reset'
  BY DEF OnlyListsBreak
<1>1. ~mixed /\ \A c \in Clients : Link(c)
  BY MixedStays DEF InSteps
<1>2. CASE UNCHANGED <<proc, thread, reset>>
  BY <1>1, <1>2 DEF OnlyListsBreak
<1>3. CASE Accept
  <2>1. proc = "broken" /\ Living
    BY <1>3 DEF Accept
  <2> QED
    BY <2>1 DEF Living
<1>4. CASE AcceptFails
  BY <1>2, <1>4 DEF AcceptFails
<1>5. CASE MainExits \/ AcceptEnds
  BY <1>2, <1>5 DEF MainExits, AcceptEnds, links
<1>6. ASSUME NEW t \in Clients, ThreadStep(t)
      PROVE  \E u \in Clients : thread'[u].req.op = "L" /\ thread'[u].serves \in reset'
  <2>1. proc # "broken"
    BY <1>1, <1>6, ThreadFrame DEF Link, Living
  <2>2. CASE SendOut(t)
    BY <1>1, <2>2, SendOutLink
  <2>3. SendOut(t)
    BY <1>6, <2>1, Zenon DEF ThreadStep, CopyInfos, RecvOp, RecvFlag, RecvSize, RecvPath, RecvEnds, Receives,
                             DoCommand, DoList, DoKill
  <2> QED
    BY <2>2, <2>3
<1>7. ASSUME NEW c \in Clients, ClientStep(c) PROVE UNCHANGED <<proc, thread, reset>>
  BY <1>7, ClientFrame DEF ClientDoes
<1>8. CASE UNCHANGED vars
  BY <1>2, <1>8 DEF vars, links
<1> QED
  BY <1>2, <1>3, <1>4, <1>5, <1>6, <1>7, <1>8 DEF Next

\* The inductive invariant: while no client was accepted too early, each connection is served by
\* the thread of its own client, and what is on its way on it is a part of one command or of one
\* answer, between the part the other end has read and the part that is still to be sent.
THEOREM CommandingHolds == Spec => []Commanding
<1>1. Init => OnlyListsBreak
  BY DEF Init, OnlyListsBreak
<1>2. Init => Commanding
  BY <1>1, TypesInit, InStepsInit DEF Commanding
<1>3. Commanding /\ [Next]_vars => Commanding'
  BY TypesNext, InStepsNext, BreaksNext DEF Commanding
<1> QED
  BY <1>2, <1>3, PTL DEF Spec

\* The daemon does the commands of each client as that client sent them, in their order, whatever
\* the others type, and however recv() cuts the paths.
THEOREM InStepHolds == Spec => []InStep
<1>1. Commanding => InStep
  BY DEF Commanding, InSteps, InStep, Link, Upward
<1> QED
  BY <1>1, CommandingHolds, PTL

\* No client takes the outcome of another's command, or of another of its own, for the answer.
THEOREM AnswersOwnHolds == Spec => []AnswersOwn
<1>1. Commanding => AnswersOwn
  BY DEF Commanding, InSteps, AnswersOwn, Link, Downward
<1> QED
  BY <1>1, CommandingHolds, PTL

\* A client shows the paths that were watched, from the first on, and all of them once the
\* answer to its "list" has come.
THEOREM ListsWholeHolds == Spec => []ListsWhole
<1>1. ASSUME Commanding, ~mixed, NEW c \in Clients
      PROVE  /\ IsPrefix(hist[c].shown, hist[c].listed)
             /\ client[c].pc = "typing" /\ hist[c].sent = hist[c].done /\ hist[c].got = hist[c].given
                => hist[c].shown = hist[c].listed
  <2>1. Downward(c)
    BY <1>1 DEF Commanding, InSteps, Link
  <2>2. client[c].pc = "typing" => ~Due(c)
    BY DEF Due, ReadOf
  <2> QED
    BY <2>1, <2>2 DEF Downward, Silent
<1>2. Commanding => ListsWhole
  BY <1>1 DEF ListsWhole
<1> QED
  BY <1>2, CommandingHolds, PTL

\* SIGPIPE ends the daemon only while the thread of a client that has left sends it a list.
THEOREM OnlyListsBreakHolds == Spec => []OnlyListsBreak
<1>1. Commanding => OnlyListsBreak
  BY DEF Commanding
<1> QED
  BY <1>1, CommandingHolds, PTL
================================================================================
