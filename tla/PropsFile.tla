------------------------------- MODULE PropsFile -------------------------------
(***************************************************************************)
(* The properties file daemon.prop (initDaemon, isActiveDaemon,            *)
(* getDaemonPort, deletePropsFile in src/src/daemon/ANotifyDaemon.cpp, and *)
(* the beginning of ANotifyClient.cpp): a daemon writes its process number *)
(* and its port into it, refuses to start when it finds another number     *)
(* there, and clients find the port of the daemon in it.                   *)
(*                                                                         *)
(* The file is not locked (the flock calls are commented out), so that     *)
(* every system call is a step, and processes may crash between any two.   *)
(* A name that was removed while somebody holds the file open leads to no  *)
(* file or to another one: files are numbered in the order of creation.    *)
(***************************************************************************)
EXTENDS Integers, Sequences, FiniteSets

CONSTANTS
  Daemons,     \* the daemon processes there can be (each starts once)
  Controls,    \* the client programs (each looks for the daemon once)
  Pid,         \* [Daemons -> process numbers]: a number may be used again
  Ports,       \* the ports of 5000..5999 that no other program holds
  IndexPorts   \* the ports on which an index base listens

ASSUME PropsAssumption ==
  /\ Pid \in [Daemons -> Nat]
  /\ Ports \subseteq 5000 .. 5999
  /\ IndexPorts \subseteq 0 .. 65535

VARIABLES
  dpc,      \* where each daemon stands
  file,     \* the file each daemon opened (0: none)
  port,     \* the port each daemon listens on (0: none)
  visible,  \* the file the path daemon.prop leads to (0: none)
  content,  \* what was written into each file: a sequence of the daemons that wrote
            \* "pid:..." and "port:..."
  written,  \* the port each daemon wrote
  cpc,      \* where each client stands
  cfile,    \* the file it opened
  cport,    \* the port it found
  joined,   \* the clients connected to each daemon
  overlap   \* history: a daemon began or was killed while another was starting or ending

daemons == <<dpc, file, port>>
disk    == <<visible, content, written>>
clients == <<cpc, cfile, cport, joined>>
vars    == <<daemons, disk, clients, overlap>>

Init ==
  /\ dpc = [d \in Daemons |-> "off"]
  /\ file = [d \in Daemons |-> 0] /\ port = [d \in Daemons |-> 0]
  /\ visible = 0 /\ content = <<>> /\ written = [d \in Daemons |-> 0]
  /\ cpc = [c \in Controls |-> "off"]
  /\ cfile = [c \in Controls |-> 0] /\ cport = [c \in Controls |-> 0]
  /\ joined = [d \in Daemons |-> {}]
  /\ overlap = FALSE

Starting == {"check", "listen", "write", "connect"}
Alive == Starting \cup {"serve", "dying"}

\* The ends that leave a name in the file: a crash, and a failure of `new ANotify()`
Left == {"crashed", "nowatch"}

\* open(daemon.prop, O_RDWR | O_CREAT | O_APPEND): the file the path leads to, or a new one
Opened == IF visible = 0 THEN Len(content) + 1 ELSE visible

OpenPropsFile ==
  /\ visible' = Opened
  /\ content' = IF visible = 0 THEN Append(content, <<>>) ELSE content
  /\ UNCHANGED written

\* remove(daemon.prop), whoever's file it is
DeletePropsFile == visible' = 0 /\ UNCHANGED <<content, written>>

----------------------------------------------------------------------------
(* A daemon: initDaemon(), kill() and the end of main() *)

Moves(d, from, to) ==
  /\ dpc[d] = from
  /\ dpc' = [dpc EXCEPT ![d] = to]
  /\ UNCHANGED clients

Overlaps == overlap' = (overlap \/ \E e \in Daemons : dpc[e] \in Starting \cup {"dying"})

\* The process exists from here on; openPropsFile() is the first thing it does.
Begin(d) ==
  /\ \A e \in Daemons : dpc[e] \in Alive => Pid[e] # Pid[d]
  /\ Moves(d, "off", "check")
  /\ OpenPropsFile
  /\ file' = [file EXCEPT ![d] = Opened]
  /\ Overlaps
  /\ UNCHANGED port

\* Mutant: isActiveDaemon() takes a file that begins with something else for a free one
ActiveUnlessRead(d) == content[file[d]] = <<>> \/ Pid[Head(content[file[d]])] # Pid[d]

\* isActiveDaemon(): the file is empty, or the number it begins with is our own
IsActiveDaemon(d) == content[file[d]] = <<>> \/ Pid[Head(content[file[d]])] = Pid[d]

\* Mutant: a daemon that is refused removes the file on its way out
CheckDeletes(d) ==
  /\ Moves(d, "check", IF IsActiveDaemon(d) THEN "listen" ELSE "refused")
  /\ IF IsActiveDaemon(d) THEN UNCHANGED disk ELSE DeletePropsFile
  /\ UNCHANGED <<file, port, overlap>>

Check(d) ==
  /\ Moves(d, "check", IF IsActiveDaemon(d) THEN "listen" ELSE "refused")
  /\ UNCHANGED <<file, port, disk, overlap>>

\* Mutant: bind() with SO_REUSEPORT, which another daemon's port does not refuse
ListenShared(d) ==
  /\ Moves(d, "listen", "write")
  /\ \E p \in Ports : port' = [port EXCEPT ![d] = p]
  /\ UNCHANGED <<file, disk, overlap>>

\* The first port that bind() and listen() accept: any that no other process has.
Listen(d) ==
  /\ Moves(d, "listen", "write")
  /\ \E p \in Ports : /\ \A e \in Daemons : port[e] # p
                      /\ port' = [port EXCEPT ![d] = p]
  /\ UNCHANGED <<file, disk, overlap>>

\* No socket, no port, or write() fails: the file is closed, not deleted.
GivesUp(d) ==
  /\ Moves(d, "listen", "failed") \/ Moves(d, "write", "failed")
  /\ port' = [port EXCEPT ![d] = 0]
  /\ UNCHANGED <<file, disk, overlap>>

WriteProps(d) ==
  /\ Moves(d, "write", "connect")
  /\ content' = [content EXCEPT ![file[d]] = Append(@, d)]
  /\ written' = [written EXCEPT ![d] = port[d]]
  /\ UNCHANGED <<file, port, visible, overlap>>

\* The loop over 40000..40002 gives htons() the variable `port`, which is still -1.
ConnectPorts == {(-1) % 65536}

Connect(d) ==
  /\ ConnectPorts \cap IndexPorts # {}
  /\ Moves(d, "connect", "serve")
  /\ UNCHANGED <<file, port, disk, overlap>>

\* Mutant: an error after write() leaves the file
ConnectFailsKeeps(d) ==
  /\ Moves(d, "connect", "failed")
  /\ port' = [port EXCEPT ![d] = 0]
  /\ UNCHANGED <<file, disk, overlap>>

\* No socket, no host, no connection to the index base, no log file
ConnectFails(d) ==
  /\ Moves(d, "connect", "failed")
  /\ DeletePropsFile
  /\ port' = [port EXCEPT ![d] = 0]
  /\ UNCHANGED <<file, overlap>>

\* `new ANotify()`, the last thing initDaemon() does, throws when inotify_init() fails: main()
\* prints the exception and exits, and nobody deletes the file.
NotifyFails(d) ==
  /\ ConnectPorts \cap IndexPorts # {}
  /\ Moves(d, "connect", "nowatch")
  /\ port' = [port EXCEPT ![d] = 0]
  /\ UNCHANGED <<file, disk, overlap>>

\* kill(): only a client that is connected can ask for it, for SIGTERM is ignored.
Kill(d) ==
  /\ joined[d] # {}
  /\ Moves(d, "serve", "dying")
  /\ DeletePropsFile
  /\ Overlaps
  /\ UNCHANGED <<file, port>>

\* A second client thread had passed the test of isAlive(), too.
KillAgain(d) ==
  /\ Moves(d, "dying", "dying")
  /\ DeletePropsFile
  /\ UNCHANGED <<file, port, overlap>>

\* main() sees that the daemon is not alive any more, up to a second later.  The accept()
\* of another thread keeps the port until then.
Exit(d) ==
  /\ Moves(d, "dying", "ended")
  /\ port' = [port EXCEPT ![d] = 0]
  /\ UNCHANGED <<file, disk, overlap>>

\* SIGKILL, a crash of the program or of the machine
Crash(d) ==
  /\ dpc[d] \in Alive
  /\ Moves(d, dpc[d], "crashed")
  /\ port' = [port EXCEPT ![d] = 0]
  /\ UNCHANGED <<file, disk, overlap>>

DaemonStep(d) ==
  \/ Begin(d) \/ Check(d) \/ Listen(d) \/ GivesUp(d) \/ WriteProps(d)
  \/ Connect(d) \/ ConnectFails(d) \/ NotifyFails(d) \/ Kill(d) \/ KillAgain(d) \/ Exit(d) \/ Crash(d)

----------------------------------------------------------------------------
(* A client: the beginning of main() in ANotifyClient.cpp *)

\* The client creates the file when there is none.
ClientOpen(c) ==
  /\ cpc[c] = "off"
  /\ cpc' = [cpc EXCEPT ![c] = "read"]
  /\ cfile' = [cfile EXCEPT ![c] = Opened]
  /\ OpenPropsFile
  /\ UNCHANGED <<daemons, cport, joined, overlap>>

\* getDaemonPort(): the port after the first line; `return true`, which is 1, when the
\* file is empty (ANotifyDaemon.h:111 documents -1 for an error)
GetDaemonPort(f) == IF content[f] = <<>> THEN 1 ELSE written[Head(content[f])]

ClientRead(c) ==
  /\ cpc[c] = "read"
  /\ cpc' = [cpc EXCEPT ![c] = "connect"]
  /\ cport' = [cport EXCEPT ![c] = GetDaemonPort(cfile[c])]
  /\ UNCHANGED <<daemons, disk, cfile, joined, overlap>>

\* The connection is made if a daemon listens there; nothing listens on port 1.
ClientConnect(c) ==
  /\ cpc[c] = "connect"
  /\ cpc' = [cpc EXCEPT ![c] = "done"]
  /\ joined' = [d \in Daemons |-> IF port[d] = cport[c] THEN joined[d] \cup {c} ELSE joined[d]]
  /\ UNCHANGED <<daemons, disk, cfile, cport, overlap>>

ClientStep(c) == ClientOpen(c) \/ ClientRead(c) \/ ClientConnect(c)

Next == (\E d \in Daemons : DaemonStep(d)) \/ (\E c \in Controls : ClientStep(c))

Spec == Init /\ [][Next]_vars

----------------------------------------------------------------------------
(* Properties *)

\* Two processes never listen on one port
PortsApart == \A d, e \in Daemons : port[d] = port[e] /\ port[d] # 0 => d = e

\* Type invariant; a port belongs to one process.
TypeOK ==
  /\ dpc \in [Daemons -> {"off", "refused", "failed", "ended"} \cup Left \cup Alive]
  /\ file \in [Daemons -> 0 .. Len(content)]
  /\ port \in [Daemons -> Ports \cup {0}] /\ PortsApart
  /\ visible \in 0 .. Len(content)
  /\ content \in Seq(Seq(Daemons))
  /\ written \in [Daemons -> Ports \cup {0}]
  /\ cpc \in [Controls -> {"off", "read", "connect", "done"}]
  /\ cfile \in [Controls -> 0 .. Len(content)]
  /\ cport \in [Controls -> Int]
  /\ joined \in [Daemons -> SUBSET Controls]
  /\ overlap \in BOOLEAN

Writers(f) == {content[f][i] : i \in DOMAIN content[f]}

\* Whatever processes start together, fail half way, or are killed twice: a name in the file
\* that clients and new daemons open is that of a daemon that lives, or of one
\* that crashed or that could not make its inotify descriptor.
NoStaleFile ==
  visible # 0 => \A d \in Writers(visible) : dpc[d] \in {"connect", "serve"} \cup Left

\* Daemons that neither begin nor are killed while another starts or ends: one passes the
\* test at a time, crashes and process numbers that are used again included.
OneDaemon ==
  ~overlap =>
    \A d, e \in Daemons :
      dpc[d] \in (Starting \ {"check"}) \cup {"serve"} /\ dpc[e] \in (Starting \ {"check"}) \cup {"serve"}
      => d = e

\* Clients find a daemon that serves, if no start overlapped and no daemon crashed or failed
\* to make its inotify descriptor.
FileNamesDaemon ==
  ~overlap /\ (\A d \in Daemons : dpc[d] \notin Left) =>
    \A d \in Daemons :
      dpc[d] = "serve" => visible # 0 /\ GetDaemonPort(visible) = port[d]

\* "A daemon is already running" is said only while one runs, or after one crashed or failed
\* to make its inotify descriptor, when no start and no kill overlapped.
RefusedForADaemon ==
  [][\A d \in Daemons :
       dpc[d] = "check" /\ dpc'[d] = "refused" /\ ~overlap =>
         \E e \in Daemons : dpc[e] \in {"serve"} \cup Left]_vars
================================================================================
