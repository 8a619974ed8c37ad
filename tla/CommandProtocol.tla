---------------------------- MODULE CommandProtocol ----------------------------
(***************************************************************************)
(* The commands of clients (ANotifyClient.cpp, from the first prompt on),  *)
(* the accept loop and the threads that answer them (waitForClients,       *)
(* communicate and list in ANotifyDaemon.cpp).                             *)
(*                                                                         *)
(* Neither end frames its messages: each counts on the other to read what  *)
(* it sent, octet for octet.  A connection is two sequences of octets; an  *)
(* int is four of them, the lowest first.  A call of send() puts all its   *)
(* octets into the sequence; a call of recv() takes some that are there.   *)
(* What commands do to the daemon is the subject of ANotifyDaemon: here    *)
(* they have an outcome, and kill ends the process.                        *)
(***************************************************************************)
EXTENDS Integers, Sequences, SequencesExt

CONSTANTS
  Clients,   \* the client programs; a thread is named after the client that was accepted
  Requests,  \* what each client can type: [op, flag, path], flag "-" when there is none
  Listings,  \* the sequences of paths that may be watched
  MaxLines,  \* [Clients -> Nat]: how many lines each client types
  Splits,    \* a recv() of a path may return before all of it is there
  Chars,     \* the octets of paths
  Digits     \* the values of the lowest octet of an int, from 0 on; the others are "0"

\* The client asks for a path after -d and -R, and "remove" always has one; a path is a word,
\* so it is not empty, and neither are the paths of watches.
ASSUME ProtocolAssumption ==
  /\ MaxLines \in [Clients -> Nat] /\ Splits \in BOOLEAN
  /\ Digits \in Seq(Range(Digits)) /\ IsInjective(Digits)
  /\ \A c \in Clients : \A r \in Requests[c] :
       /\ r \in [op : {"S", "R", "D", "K", "E", "L"}, flag : {"Y", "N", "-"}, path : Seq(Chars)]
       /\ Len(r.path) < Len(Digits)
       /\ r.op \in {"S", "R", "D"} <=> r.flag # "-"
       /\ (r.op \in {"S", "R"} /\ r.flag = "Y") \/ r.op = "D" <=> r.path # <<>>
  /\ \A paths \in Listings :
       /\ paths \in Seq(Seq(Chars) \ {<<>>}) /\ Len(paths) < Len(Digits)
       /\ \A i \in DOMAIN paths : Len(paths[i]) < Len(Digits)

VARIABLES
  proc,     \* the daemon process: "up", "dying" (killed), "ended", "broken" (by SIGPIPE)
  backlog,  \* the clients connected and not accepted
  listens,  \* the accept loop goes on
  infos,    \* the client in infos_client, in the frame of the accept loop
  thread,   \* communicate() of each client: [pc, serves, req, size, out]
  client,   \* each client program: [pc, req, todo, nb, size, lines]
  up, down, \* the octets on their way to the daemon and to the client
  hungup,   \* the connections the daemon closed
  reset,    \* the connections whose other end had gone when the daemon sent to them
  refused,  \* the same for the client
  hist,     \* history: for each client the commands it sent and the daemon did, the
            \* outcomes given and got, the listing taken and the paths shown
  blank,    \* history: the clients at which an empty line was typed
  mixed     \* history: a client was accepted before a thread had looked at infos_client

links  == <<up, down, hungup, reset, refused>>
marks  == <<blank, mixed>>
accept == <<backlog, listens, infos>>
vars   == <<proc, accept, thread, client, links, hist, marks>>

None == [op |-> "-", flag |-> "-", path |-> <<>>]

Init ==
  /\ proc = "up" /\ backlog = <<>> /\ listens = TRUE /\ infos = {}
  /\ thread = [c \in Clients |-> [pc |-> "off", serves |-> c, req |-> None, size |-> 0, out |-> <<>>]]
  /\ client = [c \in Clients |-> [pc |-> "off", req |-> None, todo |-> <<>>, nb |-> 0, size |-> 0, lines |-> 0]]
  /\ up = [c \in Clients |-> <<>>] /\ down = [c \in Clients |-> <<>>]
  /\ hungup = {} /\ reset = {} /\ refused = {}
  /\ hist = [c \in Clients |-> [sent |-> <<>>, done |-> <<>>, given |-> <<>>, got |-> <<>>,
                                listed |-> <<>>, shown |-> <<>>]]
  /\ blank = {} /\ mixed = FALSE

Living == proc \in {"up", "dying"}

----------------------------------------------------------------------------
(* Octets *)

Int4(n) == <<Digits[n + 1], "0", "0", "0">>

\* More than will ever arrive
Huge == 1000

\* The values an int may have after recv() put `o' into it; it had never been set before.
Ints(o) ==
  LET whole == SubSeq(o \o <<"0", "0", "0">>, 1, 4)
      low   == {n \in 0 .. Len(Digits) - 1 : whole = Int4(n)}
  IN  (IF low = {} THEN {Huge} ELSE low) \cup (IF Len(o) < 4 THEN {Huge, -1} ELSE {})

\* Mutant: sendCommand() for all commands
SendsFlagged(r) ==
  IF r.op # "D" /\ r.flag # "Y" THEN <<<<r.op>>, <<r.flag>>>>
  ELSE <<<<r.op>>, <<r.flag>>, Int4(Len(r.path)), r.path>>

\* The calls of send() for a command: one for K, E and L, and sendCommand() for the others
Sends(r) ==
  IF r.op \in {"K", "E", "L"} THEN <<<<r.op>>>>
  ELSE IF r.op # "D" /\ r.flag = "N" THEN <<<<r.op>>, <<r.flag>>>>
  ELSE <<<<r.op>>, <<r.flag>>, Int4(Len(r.path)), r.path>>

\* The calls of send() for a listing
ListSends(paths) ==
  [i \in 1 .. 2 * Len(paths) + 1 |-> IF i = 1 THEN Int4(Len(paths))
                                    ELSE IF i % 2 = 0 THEN Int4(Len(paths[i \div 2])) ELSE paths[i \div 2]]

Least(a, b) == IF a < b THEN a ELSE b

\* What a call of recv() for n octets may return of those that are there
Arrived(s, n, mayBeCut) ==
  LET all == Least(n, Len(s)) IN {SubSeq(s, 1, k) : k \in IF mayBeCut THEN 1 .. all ELSE {all} \ {0}}

From(s, k) == SubSeq(s, k + 1, Len(s))

----------------------------------------------------------------------------
(* The daemon: waitForClients() and communicate() *)

Accept ==
  /\ Living /\ listens /\ backlog # <<>>
  /\ backlog' = Tail(backlog)
  /\ infos' = {Head(backlog)}
  /\ thread' = [thread EXCEPT ![Head(backlog)].pc = "new"]
  /\ mixed' = (mixed \/ \E t \in Clients : thread[t].pc = "new")
  /\ UNCHANGED <<proc, listens, client, links, hist, blank>>

\* pthread_create() fails
AcceptFails ==
  /\ Living /\ listens /\ backlog # <<>>
  /\ backlog' = Tail(backlog)
  /\ infos' = {Head(backlog)}
  /\ hungup' = hungup \cup {Head(backlog)}
  /\ mixed' = (mixed \/ \E t \in Clients : thread[t].pc = "new")
  /\ UNCHANGED <<proc, listens, thread, client, up, down, reset, refused, hist, blank>>

\* accept() fails for a client that waits (no descriptor is left): the loop ends for good, and
\* the socket goes on listening
AcceptEnds ==
  /\ Living /\ listens /\ backlog # <<>>
  /\ listens' = FALSE
  /\ UNCHANGED <<proc, backlog, infos, thread, client, links, hist, marks>>

\* The thread looks at the pair that its argument points to.
CopyInfos(t) ==
  /\ Living /\ thread[t].pc = "new"
  /\ \E c \in infos : thread' = [thread EXCEPT ![t].pc = "op", ![t].serves = c]
  /\ UNCHANGED <<proc, accept, client, links, hist, marks>>

\* The octets that recv() may give the thread, and the step that takes them
FromClient(t, n, mayBeCut) ==
  LET c == thread[t].serves IN IF Living /\ c \notin hungup THEN Arrived(up[c], n, mayBeCut) ELSE {}

Receives(t, o) ==
  /\ up' = [up EXCEPT ![thread[t].serves] = From(@, Len(o))]
  /\ UNCHANGED <<proc, accept, client, down, reset, refused, hist, marks>>

RecvOp(t) ==
  /\ thread[t].pc = "op"
  /\ \E o \in FromClient(t, 1, FALSE) :
       /\ Receives(t, o)
       /\ thread' = [thread EXCEPT ![t].req = [None EXCEPT !.op = o[1]],
                                   ![t].pc = IF o[1] \in {"S", "R", "D"} THEN "flag"
                                             ELSE IF o[1] \in {"K", "E", "L"} THEN "do" ELSE "op"]
  /\ UNCHANGED hungup

\* Mutant: the size is expected after every flag
AfterFlagAlways(op, flag) == "size"

\* Mutant: a removal is taken for a start
AfterFlagAsStart(op, flag) == IF flag = "Y" THEN "size" ELSE "do"

\* A start or restart without a path ends here.
AfterFlag(op, flag) == IF op = "D" \/ flag = "Y" THEN "size" ELSE "do"

RecvFlag(t) ==
  /\ thread[t].pc = "flag"
  /\ \E o \in FromClient(t, 1, FALSE) :
       LET flag == IF o = <<"Y">> THEN "Y" ELSE "N" IN
       /\ Receives(t, o)
       /\ thread' = [thread EXCEPT ![t].req.flag = flag, ![t].pc = AfterFlag(thread[t].req.op, flag)]
  /\ UNCHANGED hungup

RecvSize(t) ==
  /\ thread[t].pc = "size"
  /\ \E o \in FromClient(t, 4, FALSE) :
       /\ Receives(t, o)
       /\ \E n \in Ints(o) : thread' = [thread EXCEPT ![t].size = n, ![t].pc = "path"]
  /\ UNCHANGED hungup

CloseClient(t) ==
  /\ hungup' = hungup \cup {thread[t].serves}
  /\ thread' = [thread EXCEPT ![t].pc = "gone"]

\* A path that is not there as a whole ends the connection.
RecvPath(t) ==
  /\ thread[t].pc = "path" /\ thread[t].size > 0
  /\ \E o \in FromClient(t, thread[t].size, Splits) :
       /\ Receives(t, o)
       /\ IF Len(o) < thread[t].size
          THEN CloseClient(t)
          ELSE /\ thread' = [thread EXCEPT ![t].req.path = o, ![t].pc = "do"]
               /\ UNCHANGED hungup

\* recv() returns 0 or -1: nothing will come any more, or nothing was asked for.
RecvEnds(t) ==
  LET c == thread[t].serves IN
  /\ Living /\ thread[t].pc \in {"op", "flag", "size", "path"}
  /\ \/ c \in hungup
     \/ up[c] = <<>> /\ client[c].pc = "left"
     \/ thread[t].pc = "path" /\ thread[t].size <= 0
  /\ CloseClient(t)
  /\ UNCHANGED <<proc, accept, client, up, down, reset, refused, hist, marks>>

\* What was read of the path and its size is not used again.
Does(t, outcome, paths, sends) ==
  LET c == thread[t].serves IN
  /\ thread' = [thread EXCEPT ![t].pc = "send", ![t].out = Append(sends, <<outcome>>),
                              ![t].req.path = <<>>, ![t].size = 0]
  /\ hist' = [hist EXCEPT ![c].done = Append(@, thread[t].req), ![c].given = Append(@, outcome),
                          ![c].listed = paths]
  /\ UNCHANGED <<accept, client, links, marks>>

\* Mutant: the command is acknowledged before it is done
DoCommandAcked(t) ==
  /\ Living /\ thread[t].pc = "do" /\ thread[t].req.op \in {"S", "R", "D", "E"}
  /\ \E outcome \in {"Y", "N"} : Does(t, outcome, <<>>, <<<<"Y">>>>)
  /\ UNCHANGED proc

DoCommand(t) ==
  /\ Living /\ thread[t].pc = "do" /\ thread[t].req.op \in {"S", "R", "D", "E"}
  /\ \E outcome \in {"Y", "N"} : Does(t, outcome, <<>>, <<>>)
  /\ UNCHANGED proc

\* list(): without an ANotify there is no number of watches, only the answer.
DoList(t) ==
  /\ Living /\ thread[t].pc = "do" /\ thread[t].req.op = "L"
  /\ \/ \E paths \in Listings : Does(t, "Y", paths, ListSends(paths))
     \/ proc = "dying" /\ Does(t, "N", <<>>, <<>>)
  /\ UNCHANGED proc

DoKill(t) ==
  /\ Living /\ thread[t].pc = "do" /\ thread[t].req.op = "K"
  /\ Does(t, IF proc = "up" THEN "Y" ELSE "N", <<>>, <<>>)
  /\ proc' = "dying"

\* The first send() to an end that has gone is lost; the next one raises SIGPIPE, which
\* nobody ignores.
SendOut(t) ==
  LET c == thread[t].serves
      rest == Tail(thread[t].out)
  IN
  /\ Living /\ thread[t].pc = "send"
  /\ thread' = [thread EXCEPT ![t].out = rest,
                              ![t].pc = IF rest # <<>> THEN "send" ELSE IF thread[t].req.op = "K" THEN "gone" ELSE "op"]
  /\ hungup' = IF rest = <<>> /\ thread[t].req.op = "K" THEN hungup \cup {c} ELSE hungup
  /\ IF client[c].pc = "left"
     THEN /\ reset' = reset \cup {c}
          /\ proc' = IF c \in reset THEN "broken" ELSE proc
          /\ UNCHANGED down
     ELSE /\ down' = IF c \in hungup THEN down ELSE [down EXCEPT ![c] = @ \o Head(thread[t].out)]
          /\ UNCHANGED <<reset, proc>>
  /\ UNCHANGED <<accept, client, up, refused, hist, marks>>

\* main() sees that the daemon is not alive any more; exit() ends all threads.
MainExits ==
  /\ proc = "dying" /\ proc' = "ended"
  /\ UNCHANGED <<accept, thread, client, links, hist, marks>>

ThreadStep(t) ==
  \/ CopyInfos(t) \/ RecvOp(t) \/ RecvFlag(t) \/ RecvSize(t) \/ RecvPath(t) \/ RecvEnds(t)
  \/ DoCommand(t) \/ DoList(t) \/ DoKill(t) \/ SendOut(t)

----------------------------------------------------------------------------
(* A client *)

\* Nothing will come from the daemon any more.
Closed(c) == ~Living \/ c \in hungup

\* The client c back at the prompt, and at its end
At(c, place) ==
  [client EXCEPT ![c] = [pc |-> place, req |-> None, todo |-> <<>>, nb |-> 0, size |-> 0, lines |-> @.lines]]
Left(c) == At(c, "left")
ClientDoes(c) == UNCHANGED <<proc, listens, infos, thread, hungup, reset, mixed>>

Connect(c) ==
  /\ client[c].pc = "off" /\ Living
  /\ client' = [client EXCEPT ![c].pc = "typing"]
  /\ backlog' = Append(backlog, c)
  /\ ClientDoes(c) /\ UNCHANGED <<up, down, refused, hist, blank>>

\* A command; "help", unknown words and wrong arguments lead to the next prompt.
Type(c, r) ==
  /\ client[c].pc = "typing" /\ client[c].lines < MaxLines[c]
  /\ client' = [client EXCEPT ![c].pc = "sending", ![c].req = r, ![c].todo = Sends(r), ![c].lines = @ + 1]
  /\ ClientDoes(c) /\ UNCHANGED <<backlog, up, down, refused, hist, blank>>

\* An empty line is no command, and the client goes on to wait for the answer to it.
TypeNothing(c) ==
  /\ client[c].pc = "typing" /\ client[c].lines < MaxLines[c]
  /\ client' = [client EXCEPT ![c].pc = "answer", ![c].req = None, ![c].lines = @ + 1]
  /\ blank' = blank \cup {c}
  /\ ClientDoes(c) /\ UNCHANGED <<backlog, up, down, refused, hist>>

\* "exit" at the prompt, the end of the input, or the program is interrupted wherever it is
Leave(c) ==
  /\ client[c].pc \notin {"off", "left"}
  /\ client' = Left(c)
  /\ down' = [down EXCEPT ![c] = <<>>]
  /\ ClientDoes(c) /\ UNCHANGED <<backlog, up, refused, hist, blank>>

\* What the client does once a command was sent: after "kill" it does not wait.
AfterSending(op) == IF op = "K" THEN "left" ELSE IF op = "L" THEN "count" ELSE "answer"

SendTodo(c) ==
  LET rest == Tail(client[c].todo)
      goes == [client EXCEPT ![c].todo = rest,
                             ![c].pc = IF rest = <<>> THEN AfterSending(client[c].req.op) ELSE "sending"]
  IN
  /\ client[c].pc = "sending"
  /\ IF Closed(c)
     THEN /\ refused' = refused \cup {c}
          /\ client' = Left(c) \/ (c \notin refused /\ client' = goes)
          /\ UNCHANGED <<up, hist>>
     ELSE /\ client' = goes
          /\ up' = [up EXCEPT ![c] = @ \o Head(client[c].todo)]
          /\ hist' = IF rest # <<>> THEN hist
                     ELSE [hist EXCEPT ![c].sent = Append(@, client[c].req), ![c].shown = <<>>]
          /\ UNCHANGED refused
  /\ ClientDoes(c) /\ UNCHANGED <<backlog, down, blank>>

Gets(c, o) ==
  /\ down' = [down EXCEPT ![c] = From(@, Len(o))]
  /\ ClientDoes(c) /\ UNCHANGED <<backlog, up, refused, blank>>

\* Where the loop over the paths of a listing goes on
NextPath(nb) == IF nb > 0 THEN "size" ELSE "answer"

GetCount(c) ==
  /\ client[c].pc = "count"
  /\ \E o \in Arrived(down[c], 4, FALSE) : \E n \in Ints(o) :
       /\ Gets(c, o)
       /\ client' = [client EXCEPT ![c].nb = n, ![c].pc = NextPath(n)]
  /\ UNCHANGED hist

GetSize(c) ==
  /\ client[c].pc = "size"
  /\ \E o \in Arrived(down[c], 4, FALSE) : \E n \in Ints(o) :
       /\ Gets(c, o)
       /\ client' = IF n > 0 THEN [client EXCEPT ![c].size = n, ![c].pc = "path"] ELSE Left(c)
  /\ UNCHANGED hist

\* Mutant: one path less than the number says is read
GetPathLess(c) ==
  /\ client[c].pc = "path"
  /\ \E o \in Arrived(down[c], client[c].size, Splits) :
       /\ Gets(c, o)
       /\ client' = [client EXCEPT ![c].nb = @ - 1, ![c].pc = IF Len(o) < client[c].size THEN "left" ELSE NextPath(client[c].nb - 2)]
       /\ hist' = [hist EXCEPT ![c].shown = Append(@, o)]

\* Mutant: what recv() returned is taken for the whole path
GetPathCut(c) ==
  /\ client[c].pc = "path"
  /\ \E o \in Arrived(down[c], client[c].size, Splits) :
       /\ Gets(c, o)
       /\ client' = [client EXCEPT ![c].nb = @ - 1, ![c].pc = NextPath(client[c].nb - 1)]
       /\ hist' = [hist EXCEPT ![c].shown = Append(@, o)]

GetPath(c) ==
  /\ client[c].pc = "path"
  /\ \E o \in Arrived(down[c], client[c].size, Splits) :
       /\ Gets(c, o)
       /\ IF Len(o) < client[c].size
          THEN client' = Left(c) /\ UNCHANGED hist
          ELSE /\ client' = [client EXCEPT ![c].nb = @ - 1, ![c].pc = NextPath(client[c].nb - 1)]
               /\ hist' = [hist EXCEPT ![c].shown = Append(@, o)]

GetAnswer(c) ==
  /\ client[c].pc = "answer"
  /\ \E o \in Arrived(down[c], 1, FALSE) :
       /\ Gets(c, o)
       /\ hist' = [hist EXCEPT ![c].got = Append(@, IF o = <<"Y">> THEN "Y" ELSE "N")]
  /\ client' = At(c, "typing")

\* recv() fails: "answer recv failed" and the next prompt, or the end within a listing.
GetEnds(c) ==
  /\ client[c].pc \in {"count", "size", "path", "answer"}
  /\ down[c] = <<>> /\ Closed(c)
  /\ client' = At(c, IF client[c].pc = "answer" THEN "typing" ELSE "left")
  /\ ClientDoes(c) /\ UNCHANGED <<backlog, up, down, refused, hist, blank>>

ClientReads(c) == GetCount(c) \/ GetSize(c) \/ GetPath(c) \/ GetAnswer(c) \/ GetEnds(c)

ClientStep(c) ==
  \/ Connect(c) \/ (\E r \in Requests[c] : Type(c, r)) \/ TypeNothing(c) \/ Leave(c)
  \/ SendTodo(c) \/ ClientReads(c)

Next ==
  \/ Accept \/ AcceptFails \/ AcceptEnds \/ MainExits
  \/ (\E t \in Clients : ThreadStep(t)) \/ (\E c \in Clients : ClientStep(c))

\* Threads run; what has come is read; the users type when they like.
Fairness ==
  /\ WF_vars(Accept) /\ WF_vars(MainExits)
  /\ \A t \in Clients : WF_vars(ThreadStep(t))
  /\ \A c \in Clients : WF_vars(SendTodo(c)) /\ WF_vars(ClientReads(c))

Spec == Init /\ [][Next]_vars /\ Fairness

----------------------------------------------------------------------------
(* Properties *)

Octets == {"S", "R", "D", "K", "E", "L", "Y", "N", "0"} \cup Range(Digits) \cup Chars

\* Type invariant; a thread and a client have something to send where they send.
TypeOK ==
  /\ proc \in {"up", "dying", "ended", "broken"}
  /\ backlog \in Seq(Clients) /\ listens \in BOOLEAN /\ infos \subseteq Clients
  /\ \A t \in Clients :
       /\ thread[t].pc \in {"off", "new", "op", "flag", "size", "path", "do", "send", "gone"}
       /\ thread[t].serves \in Clients
       /\ thread[t].pc = "send" => thread[t].out # <<>>
  /\ \A c \in Clients :
       /\ client[c].pc \in {"off", "typing", "sending", "count", "size", "path", "answer", "left"}
       /\ client[c].pc = "sending" => client[c].todo # <<>>
       /\ client[c].lines \in 0 .. MaxLines[c]
       /\ up[c] \in Seq(Octets)
  /\ hungup \subseteq Clients /\ reset \subseteq Clients /\ refused \subseteq Clients /\ blank \subseteq Clients

\* The daemon does, for each client, the commands that client sent: the same ones with the
\* same paths, in the same order, none twice and none made of the octets of others.
InStep ==
  ~mixed => \A c \in Clients : IsPrefix(hist[c].done, hist[c].sent)

\* The answers a client shows are the outcomes of its own commands, in their order.
AnswersOwn ==
  ~mixed => \A c \in Clients : IsPrefix(hist[c].got, hist[c].given)

\* What a client shows after "list" is what was watched, from the first path on, and all of it
\* once the answer has come.
ListsWhole ==
  ~mixed => \A c \in Clients :
    /\ IsPrefix(hist[c].shown, hist[c].listed)
    /\ client[c].pc = "typing" /\ hist[c].sent = hist[c].done /\ hist[c].got = hist[c].given
       => hist[c].shown = hist[c].listed

\* A client that leaves takes the daemon with it only while its list is being sent: every other
\* command has one send(), after which the thread sees that the client has gone.
OnlyListsBreak ==
  ~mixed /\ proc = "broken" => \E t \in Clients : thread[t].req.op = "L" /\ thread[t].serves \in reset

\* A client that gave a command comes to its next prompt or to its end, whatever the other
\* client does meanwhile: recv() that return too little, clients that leave and kills included.
\* Only a client that was not accepted before accept() failed waits for ever.
EveryWaitEnds ==
  \A c \in Clients :
    client[c].pc \in {"sending", "count", "size", "path", "answer"} ~>
      \/ client[c].pc \in {"typing", "left"} \/ c \in blank \/ mixed
      \/ ~listens /\ c \in Range(backlog)
================================================================================
