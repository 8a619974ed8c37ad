---------------------------- MODULE ANotifyWatches ----------------------------
(***************************************************************************)
(* The watch table of class ANotify (src/src/daemon/ANotify.cpp, inotify    *)
(* build): the two maps m_watches (descriptor -> watch) and m_paths (path   *)
(* -> watch), the descriptor stored in each ANotifyWatch, and the watches   *)
(* the kernel really holds for the inotify descriptor.                      *)
(*                                                                          *)
(* Several threads use one ANotify object.  The removals hold the watch     *)
(* write lock from beginning to end, so each of them is one action; add()   *)
(* has its IN_WRITE_BEGIN commented out and is four actions: the lookup of  *)
(* the path, the inotify_add_watch call, the insertion in m_watches and the *)
(* insertion in m_paths, each under a lock of its own or under none.  The   *)
(* kernel calls inside a removal may interleave with the kernel call of an  *)
(* add(), but they act on different descriptors or are ordered like the     *)
(* whole removal, so running the removal in one step loses no outcome.      *)
(***************************************************************************)
EXTENDS Integers, FiniteSets

CONSTANTS
  Watches,    \* the ANotifyWatch objects the program allocates
  Paths,      \* watched paths, numbered in the order std::map iterates them
  Dirs,       \* the directories (inodes) the paths lead to
  PathOf,     \* [Watches -> Paths]: m_path of each watch
  DirOf,      \* [Paths -> Dirs]: two paths may reach one directory by a symlink
  Covers,     \* [Paths -> SUBSET Paths]: Covers[p] are the paths strncmp finds to begin with p
  Enabled,    \* the watches constructed with iwEnabled = true
  Adders,     \* the threads that call add() (the start threads)
  MaxWd,      \* bound: number of watch descriptors the kernel hands out
  NoWatch,    \* NULL
  NoDir       \* value of wdDir for a descriptor not handed out yet

ASSUME WatchAssumption ==
  /\ Paths \subseteq Nat
  /\ PathOf \in [Watches -> Paths]
  /\ DirOf \in [Paths -> Dirs]
  /\ Covers \in [Paths -> SUBSET Paths]
  /\ Enabled \subseteq Watches
  /\ MaxWd \in Nat
  /\ NoWatch \notin Watches
  /\ NoDir \notin Dirs

NoWd == -1
Wds  == 1..MaxWd

VARIABLES
  mWatches,   \* m_watches: [Wds -> Watches or NULL]
  mPaths,     \* m_paths:   [Paths -> Watches or NULL]
  desc,       \* m_wDescr of each watch, -1 when it has none
  fdOpen,     \* m_fileDescr # -1
  pc,         \* where each adding thread stands in add()
  cur,        \* the watch each adding thread is adding
  kwd,        \* kernel: descriptor of the watch on each directory, or -1
  nextWd,     \* kernel: next descriptor (inotify does not reuse them)
  exists,     \* file system: directories present
  wdDir,      \* history: the directory each descriptor was created for
  vanished,   \* history: descriptors the kernel dropped with their directory
  call        \* history: the last API call that returned, and its answer

kernelVars == <<kwd, nextWd, exists, wdDir, vanished>>
tableVars  == <<mWatches, mPaths, desc, fdOpen>>
adderVars  == <<pc, cur>>
vars == <<tableVars, adderVars, kernelVars, call>>

Returned(op, p, ok) == [op |-> op, path |-> p, ok |-> ok]

Init ==
  /\ mWatches = [d \in Wds |-> NoWatch]
  /\ mPaths = [p \in Paths |-> NoWatch]
  /\ desc = [w \in Watches |-> NoWd]
  /\ fdOpen = TRUE
  /\ pc = [t \in Adders |-> "idle"]
  /\ cur = [t \in Adders |-> NoWatch]
  /\ kwd = [d \in Dirs |-> NoWd]
  /\ nextWd = 1
  /\ exists = Dirs
  /\ wdDir = [d \in Wds |-> NoDir]
  /\ vanished = {}
  /\ call = Returned("none", 0, TRUE)

----------------------------------------------------------------------------
(* What the maps hold *)

Listed == {p \in Paths : mPaths[p] # NoWatch}      \* what getWatchPaths() returns
Live   == {kwd[d] : d \in Dirs} \ {NoWd}           \* what the kernel still watches

Adding(w) == \E t \in Adders : pc[t] # "idle" /\ cur[t] = w

\* No map and no running add() refers to w: the program may hand it to add()
Fresh(w) ==
  /\ \A d \in Wds : mWatches[d] # w
  /\ \A p \in Paths : mPaths[p] # w
  /\ ~Adding(w)

----------------------------------------------------------------------------
(* add() *)

AddThrows(t, w) ==
  /\ pc' = [pc EXCEPT ![t] = "idle"]
  /\ cur' = [cur EXCEPT ![t] = NoWatch]
  /\ call' = Returned("add", PathOf[w], FALSE)
  /\ UNCHANGED kernelVars

\* Mutant: a watch constructed disabled is handed to the kernel as well
AddCheckDisabled(t, w) ==
  /\ pc[t] = "idle"
  /\ Fresh(w)
  /\ fdOpen /\ mPaths[PathOf[w]] = NoWatch
  /\ desc' = [desc EXCEPT ![w] = NoWd]
  /\ pc' = [pc EXCEPT ![t] = "kernel"]
  /\ cur' = [cur EXCEPT ![t] = w]
  /\ UNCHANGED <<mWatches, mPaths, fdOpen, kernelVars, call>>

\* add(new ANotifyWatch(path)): the closed descriptor and findWatch(path)
AddCheck(t, w) ==
  /\ pc[t] = "idle"
  /\ Fresh(w)
  /\ desc' = [desc EXCEPT ![w] = NoWd]
  /\ UNCHANGED <<mWatches, mPaths, fdOpen>>
  /\ \/ /\ ~fdOpen \/ mPaths[PathOf[w]] # NoWatch
        /\ AddThrows(t, w)
     \/ /\ fdOpen /\ mPaths[PathOf[w]] = NoWatch
        /\ pc' = [pc EXCEPT ![t] = IF w \in Enabled THEN "kernel" ELSE "byPath"]
        /\ cur' = [cur EXCEPT ![t] = w]
        /\ UNCHANGED <<kernelVars, call>>

\* inotify_add_watch returns the watch the directory already has, or a new one
AddKernel(t) ==
  LET w == cur[t]
      dir == DirOf[PathOf[w]]
      wd == IF kwd[dir] # NoWd THEN kwd[dir] ELSE nextWd
  IN /\ pc[t] = "kernel"
     /\ fdOpen /\ dir \in exists
     /\ wd \in Wds
     /\ kwd' = [kwd EXCEPT ![dir] = wd]
     /\ nextWd' = IF kwd[dir] # NoWd THEN nextWd ELSE nextWd + 1
     /\ wdDir' = [wdDir EXCEPT ![wd] = dir]
     /\ desc' = [desc EXCEPT ![w] = wd]
     /\ pc' = [pc EXCEPT ![t] = "byFd"]
     /\ UNCHANGED <<mWatches, mPaths, fdOpen, cur, exists, vanished, call>>

\* Mutant: the result of inotify_add_watch is not tested
AddKernelUntested(t) ==
  /\ pc[t] = "kernel"
  /\ pc' = [pc EXCEPT ![t] = "byPath"]
  /\ UNCHANGED <<tableVars, cur, kernelVars, call>>

\* the directory is gone, the descriptor closed, or the user's watch limit reached
AddKernelFails(t) ==
  /\ pc[t] = "kernel"
  /\ AddThrows(t, cur[t])
  /\ UNCHANGED tableVars

\* std::map::insert keeps an entry that is already there
MapInsert(f, k, w) == IF f[k] = NoWatch THEN [f EXCEPT ![k] = w] ELSE f

AddByFd(t) ==
  /\ pc[t] = "byFd"
  /\ mWatches' = MapInsert(mWatches, desc[cur[t]], cur[t])
  /\ pc' = [pc EXCEPT ![t] = "byPath"]
  /\ UNCHANGED <<mPaths, desc, fdOpen, cur, kernelVars, call>>

AddByPath(t) ==
  /\ pc[t] = "byPath"
  /\ mPaths' = MapInsert(mPaths, PathOf[cur[t]], cur[t])
  /\ pc' = [pc EXCEPT ![t] = "idle"]
  /\ cur' = [cur EXCEPT ![t] = NoWatch]
  /\ call' = Returned("add", PathOf[cur[t]], TRUE)
  /\ UNCHANGED <<mWatches, desc, fdOpen, kernelVars>>

----------------------------------------------------------------------------
(* removeOneWatch(), removeRecWatch(), removeAll(), AClose() *)

\* clearWatch of the watch listed under p fails after the paths of S before p were
\* cleared: the kernel has no such watch (any more)
ClearFails(S, p) ==
  LET d == desc[mPaths[p]]
  IN d # NoWd /\ \/ d \notin Live
                 \/ \E q \in S : q < p /\ desc[mPaths[q]] = d

\* Mutant: the loop over the paths ends after the first one
ClearedFirst(S) == {p \in S : ~ClearFails(S, p) /\ \A q \in S : p <= q}

\* `res = res && clearWatch(..)`: the paths of S cleared before the first failure
Cleared(S) == {p \in S : \A q \in S : q <= p => ~ClearFails(S, q)}

\* clearWatch() of the watch listed under each path of C
Descriptors(C) == {desc[mPaths[p]] : p \in C} \ {NoWd}

\* Mutant: inotify_rm_watch is skipped while another path uses the descriptor
ClearKernelUnshared(C) ==
  kwd' = [d \in Dirs |->
            IF /\ kwd[d] \in Descriptors(C)
               /\ ~\E p \in Listed \ C : desc[mPaths[p]] = kwd[d]
            THEN NoWd ELSE kwd[d]]

ClearKernel(C) ==
  kwd' = [d \in Dirs |-> IF kwd[d] \in Descriptors(C) THEN NoWd ELSE kwd[d]]
ClearDesc(C) ==
  desc' = [w \in Watches |-> IF \E p \in C : mPaths[p] = w THEN NoWd ELSE desc[w]]
ClearMaps(C) ==
  /\ mWatches' = [d \in Wds |-> IF d \in Descriptors(C) THEN NoWatch ELSE mWatches[d]]
  /\ mPaths' = [p \in Paths |-> IF p \in C THEN NoWatch ELSE mPaths[p]]

Clear(C) == ClearKernel(C) /\ ClearDesc(C) /\ ClearMaps(C)

\* clearWatch() returns at once when the descriptor is closed
Clearable(S) == IF fdOpen THEN Cleared(S) ELSE {}

\* removeOneWatch ignores what clearWatch returns
RemoveOne(p) ==
  /\ Clear(Clearable({p} \cap Listed))
  /\ call' = Returned("removeOne", p, p \in Listed)
  /\ UNCHANGED <<fdOpen, adderVars, nextWd, exists, wdDir, vanished>>

\* removeRecWatch returns true whatever happened
RemoveRec(p) ==
  /\ Clear(Clearable(Covers[p] \cap Listed))
  /\ call' = Returned("removeRec", p, TRUE)
  /\ UNCHANGED <<fdOpen, adderVars, nextWd, exists, wdDir, vanished>>

\* The loop of removeAll() clears the first watch only: `b = false` after it.  It then
\* advances an iterator whose element clearWatch has erased; the C++ outcome is either
\* to reach the end, as here, or to abort the process, after which nothing happens.
FirstListed == {p \in Listed : \A q \in Listed : p <= q}

\* Mutant: m_watches.clear() is missing
EmptyPaths ==
  /\ mPaths' = [p \in Paths |-> NoWatch]
  /\ UNCHANGED mWatches

EmptyMaps ==
  /\ mWatches' = [d \in Wds |-> NoWatch]
  /\ mPaths' = [p \in Paths |-> NoWatch]

\* Close(), called by stop(), is removeAll() on an open descriptor
RemoveAll ==
  /\ fdOpen
  /\ ClearKernel(Cleared(FirstListed))
  /\ ClearDesc(Cleared(FirstListed))
  /\ EmptyMaps
  /\ call' = Returned("removeAll", 0, Listed = {})
  /\ UNCHANGED <<fdOpen, adderVars, nextWd, exists, wdDir, vanished>>

\* close() of the inotify descriptor drops every watch the kernel holds for it
AClose ==
  /\ fdOpen
  /\ fdOpen' = FALSE
  /\ kwd' = [d \in Dirs |-> NoWd]
  /\ ClearDesc(Cleared(FirstListed))
  /\ EmptyMaps
  /\ call' = Returned("aclose", 0, TRUE)
  /\ UNCHANGED <<adderVars, nextWd, exists, wdDir, vanished>>

----------------------------------------------------------------------------
(* The file system.  The kernel drops the watch of a deleted directory; the *)
(* IN_IGNORED event that says so is never looked at.                        *)

DirVanishes(d) ==
  /\ d \in exists
  /\ exists' = exists \ {d}
  /\ kwd' = [kwd EXCEPT ![d] = NoWd]
  /\ vanished' = (vanished \cup {kwd[d]}) \ {NoWd}
  /\ UNCHANGED <<tableVars, adderVars, nextWd, wdDir, call>>

DirAppears(d) ==
  /\ d \notin exists
  /\ exists' = exists \cup {d}
  /\ UNCHANGED <<tableVars, adderVars, kwd, nextWd, wdDir, vanished, call>>

----------------------------------------------------------------------------
AdderStep(t) ==
  \/ \E w \in Watches : AddCheck(t, w)
  \/ AddKernel(t)
  \/ AddKernelFails(t)
  \/ AddByFd(t)
  \/ AddByPath(t)

\* A removal is one step, so which thread calls it makes no difference
RemoverStep ==
  \/ \E p \in Paths : RemoveOne(p) \/ RemoveRec(p)
  \/ RemoveAll
  \/ AClose

FileSystem == \E d \in Dirs : DirVanishes(d) \/ DirAppears(d)

Next == (\E t \in Adders : AdderStep(t)) \/ RemoverStep \/ FileSystem

Spec == Init /\ [][Next]_vars

----------------------------------------------------------------------------
(* Properties *)

DisabledUnwatched ==
  \A w \in Watches \ Enabled : desc[w] = NoWd /\ \A d \in Wds : mWatches[d] # w

\* Type invariant; a thread has a watch in hand exactly while it is in add(), and a
\* watch constructed disabled gets no descriptor and no entry of m_watches.
TypeOK ==
  /\ mWatches \in [Wds -> Watches \cup {NoWatch}]
  /\ mPaths \in [Paths -> Watches \cup {NoWatch}]
  /\ desc \in [Watches -> Wds \cup {NoWd}]
  /\ fdOpen \in BOOLEAN
  /\ pc \in [Adders -> {"idle", "kernel", "byFd", "byPath"}]
  /\ cur \in [Adders -> Watches \cup {NoWatch}]
  /\ \A t \in Adders : pc[t] = "idle" <=> cur[t] = NoWatch
  /\ DisabledUnwatched
  /\ kwd \in [Dirs -> Wds \cup {NoWd}]
  /\ nextWd \in 1..(MaxWd + 1)
  /\ exists \subseteq Dirs
  /\ wdDir \in [Wds -> Dirs \cup {NoDir}]
  /\ vanished \subseteq Wds
  /\ call \in [op : {"none", "add", "removeOne", "removeRec", "removeAll", "aclose"},
               path : Nat, ok : BOOLEAN]

\* The two assumptions on the callers under which the table is coherent
OneAdder  == \A t, u \in Adders : t = u
NoAliases == \A p, q \in Paths : DirOf[p] = DirOf[q] => p = q

InFlight(d) == \E t \in Adders : pc[t] = "byPath" /\ desc[cur[t]] = d

\* A watch that delivers events (the kernel holds it and m_watches knows its
\* descriptor) is listed under a path by which remove() reaches it, except between the
\* two insertions of add().  Two threads inside add() at once break it.
LiveWatchRemovable ==
  \A d \in Live :
    mWatches[d] # NoWatch /\ ~InFlight(d) => \E p \in Listed : desc[mPaths[p]] = d

\* What list shows is watched: an enabled watch that is listed has the descriptor the
\* kernel holds for the directory of its path, unless that directory was deleted since
\* (the code ignores IN_IGNORED).
ListedIsWatched ==
  fdOpen => \A p \in Listed :
    mPaths[p] \in Enabled =>
      \/ desc[mPaths[p]] # NoWd /\ desc[mPaths[p]] = kwd[DirOf[p]]
      \/ desc[mPaths[p]] \in vanished

\* However many threads add, and whatever aliases the paths have, a descriptor the
\* kernel still watches leaves m_watches only by removeAll().
ForgetsOnlyDeadWatches ==
  [][\A d \in Wds :
       mWatches[d] # NoWatch /\ mWatches'[d] = NoWatch =>
         d \notin Live' \/ call'.op = "removeAll"]_vars

Removed == IF call.op = "removeOne" THEN {call.path} ELSE Covers[call.path]

\* A removal that answers success may leave paths listed, since nobody looks at what
\* clearWatch returned.  But the first path it leaves is one whose watch the kernel has
\* dropped: of a directory that still delivers events it leaves none before that path.
RemovalStopsAtDead ==
  call.op \in {"removeOne", "removeRec"} /\ call.ok =>
    \A p \in Removed \cap Listed :
      \E q \in Removed \cap Listed : q <= p /\ desc[mPaths[q]] \notin Live
================================================================================
