------------------------- MODULE ANotifyWatchesProofs -------------------------
(* Theorems about the watch table of ANotify, for every number of watches, paths,  *)
(* directories and threads.                                                        *)
EXTENDS ANotifyWatches, TLAPS

----------------------------------------------------------------------------
(* Type correctness *)

LEMMA MapInsertType ==
  ASSUME NEW K, NEW V, NEW f \in [K -> V], NEW k, NEW w \in V
  PROVE  MapInsert(f, k, w) \in [K -> V]
BY DEF MapInsert

LEMMA ClearType ==
  ASSUME TypeOK, NEW C, Clear(C)
  PROVE  /\ mWatches' \in [Wds -> Watches \cup {NoWatch}]
         /\ mPaths' \in [Paths -> Watches \cup {NoWatch}]
         /\ desc' \in [Watches -> Wds \cup {NoWd}]
         /\ kwd' \in [Dirs -> Wds \cup {NoWd}]
BY DEF TypeOK, Clear, ClearKernel, ClearDesc, ClearMaps

\* Only an enabled watch gets past the test of add() to the kernel
KernelForEnabled ==
  \A t \in Adders : pc[t] \in {"kernel", "byFd"} => cur[t] \in Enabled

LEMMA TypeInit == Init => TypeOK /\ KernelForEnabled
BY WatchAssumption DEF Init, TypeOK, DisabledUnwatched, KernelForEnabled, Returned, Wds, NoWd

LEMMA KernelNext ==
  ASSUME TypeOK, KernelForEnabled, [Next]_vars
  PROVE  KernelForEnabled'
<1> USE DEF TypeOK, KernelForEnabled
<1>1. CASE UNCHANGED vars
  BY <1>1 DEF vars, adderVars
<1>2. ASSUME NEW t \in Adders, AdderStep(t) PROVE KernelForEnabled'
  <2>1. ASSUME NEW w \in Watches, AddCheck(t, w) PROVE KernelForEnabled'
    BY <2>1 DEF AddCheck, AddThrows
  <2>2. CASE AddKernel(t) \/ AddKernelFails(t) \/ AddByFd(t) \/ AddByPath(t)
    BY <2>2 DEF AddKernel, AddKernelFails, AddThrows, AddByFd, AddByPath
  <2> QED
    BY <1>2, <2>1, <2>2 DEF AdderStep
<1>3. CASE RemoverStep \/ FileSystem
  <2>1. UNCHANGED adderVars
    BY <1>3 DEF RemoverStep, FileSystem, RemoveOne, RemoveRec, RemoveAll, AClose,
                DirVanishes, DirAppears
  <2> QED
    BY <2>1 DEF adderVars
<1> QED
  BY <1>1, <1>2, <1>3 DEF Next

\* A disabled watch stays out of m_watches and without a descriptor
LEMMA DisabledNext ==
  ASSUME TypeOK, KernelForEnabled, [Next]_vars
  PROVE  DisabledUnwatched'
<1> SUFFICES ASSUME NEW w \in Watches \ Enabled
             PROVE  desc'[w] = NoWd /\ \A d \in Wds : mWatches'[d] # w
  BY DEF DisabledUnwatched
<1> USE DEF TypeOK, KernelForEnabled, DisabledUnwatched
<1>1. CASE UNCHANGED vars
  BY <1>1 DEF vars, tableVars
<1>2. ASSUME NEW t \in Adders, AdderStep(t)
      PROVE  desc'[w] = NoWd /\ \A d \in Wds : mWatches'[d] # w
  <2>1. ASSUME NEW x \in Watches, AddCheck(t, x)
        PROVE  desc'[w] = NoWd /\ UNCHANGED mWatches
    BY <2>1 DEF AddCheck
  <2>2. CASE AddKernel(t)
    BY <2>2 DEF AddKernel
  <2>3. CASE AddKernelFails(t) \/ AddByPath(t)
    BY <2>3 DEF AddKernelFails, AddByPath, tableVars
  <2>4. CASE AddByFd(t)
    BY <2>4 DEF AddByFd, MapInsert
  <2> QED
    BY <1>2, <2>1, <2>2, <2>3, <2>4 DEF AdderStep
<1>3. ASSUME NEW p \in Paths, RemoveOne(p) \/ RemoveRec(p)
      PROVE  desc'[w] = NoWd /\ \A d \in Wds : mWatches'[d] # w
  <2>1. PICK C : Clear(C)
    BY <1>3 DEF RemoveOne, RemoveRec
  <2>2. desc'[w] = NoWd
    BY <2>1 DEF Clear, ClearDesc
  <2>3. \A d \in Wds : mWatches'[d] # w
    BY <2>1, WatchAssumption DEF Clear, ClearMaps
  <2> QED
    BY <2>2, <2>3
<1>4. CASE RemoveAll \/ AClose
  <2>1. EmptyMaps /\ \E C : ClearDesc(C)
    BY <1>4 DEF RemoveAll, AClose
  <2>2. desc'[w] = NoWd
    BY <2>1 DEF ClearDesc
  <2>3. \A d \in Wds : mWatches'[d] # w
    BY <2>1, WatchAssumption DEF EmptyMaps
  <2> QED
    BY <2>2, <2>3
<1>5. ASSUME NEW d \in Dirs, DirVanishes(d) \/ DirAppears(d)
      PROVE  UNCHANGED tableVars
  BY <1>5 DEF DirVanishes, DirAppears
<1> QED
  BY <1>1, <1>2, <1>3, <1>4, <1>5 DEF Next, RemoverStep, FileSystem, tableVars

LEMMA TypeNext ==
  ASSUME TypeOK, KernelForEnabled, [Next]_vars
  PROVE  TypeOK'
<1>d. DisabledUnwatched'
  BY DisabledNext
<1> USE <1>d, WatchAssumption DEF TypeOK, Returned
<1>1. CASE UNCHANGED vars
  BY <1>1 DEF vars, tableVars, adderVars, kernelVars
<1>2. ASSUME NEW t \in Adders, NEW w \in Watches, AddCheck(t, w) PROVE TypeOK'
  <2>1. desc' \in [Watches -> Wds \cup {NoWd}]
    BY <1>2 DEF AddCheck
  <2>2. CASE AddThrows(t, w)
    <3>1. /\ pc' = [pc EXCEPT ![t] = "idle"]
          /\ cur' = [cur EXCEPT ![t] = NoWatch]
      BY <2>2 DEF AddThrows
    <3>2. call' \in [op : {"none", "add", "removeOne", "removeRec", "removeAll", "aclose"},
                     path : Nat, ok : BOOLEAN]
      BY <2>2 DEF AddThrows
    <3> QED
      BY <1>2, <2>1, <2>2, <3>1, <3>2 DEF AddCheck, AddThrows, kernelVars
  <2>3. CASE ~AddThrows(t, w)
    <3> DEFINE at == IF w \in Enabled THEN "kernel" ELSE "byPath"
    <3>1. /\ pc' = [pc EXCEPT ![t] = at]
          /\ cur' = [cur EXCEPT ![t] = w]
          /\ UNCHANGED <<mWatches, mPaths, fdOpen, kernelVars, call>>
      BY <1>2, <2>3 DEF AddCheck
    <3>2. at \in {"kernel", "byPath"} /\ w # NoWatch
      OBVIOUS
    <3> HIDE DEF at
    <3> QED
      BY <2>1, <3>1, <3>2 DEF kernelVars
  <2> QED
    BY <2>2, <2>3
<1>3. ASSUME NEW t \in Adders, AddKernel(t) PROVE TypeOK'
  BY <1>3 DEF AddKernel, Wds, NoWd
<1>4. ASSUME NEW t \in Adders, AddKernelFails(t) PROVE TypeOK'
  BY <1>4 DEF AddKernelFails, AddThrows, kernelVars, tableVars
<1>5. ASSUME NEW t \in Adders, AddByFd(t) PROVE TypeOK'
  <2>1. mWatches' \in [Wds -> Watches \cup {NoWatch}]
    BY <1>5, MapInsertType DEF AddByFd
  <2> QED
    BY <1>5, <2>1 DEF AddByFd, kernelVars
<1>6. ASSUME NEW t \in Adders, AddByPath(t) PROVE TypeOK'
  <2>1. mPaths' \in [Paths -> Watches \cup {NoWatch}]
    BY <1>6, MapInsertType DEF AddByPath
  <2> QED
    BY <1>6, <2>1 DEF AddByPath, kernelVars
<1>7. ASSUME NEW p \in Paths, RemoveOne(p) PROVE TypeOK'
  BY <1>7, ClearType DEF RemoveOne, adderVars
<1>8. ASSUME NEW p \in Paths, RemoveRec(p) PROVE TypeOK'
  BY <1>8, ClearType DEF RemoveRec, adderVars
<1>9. CASE RemoveAll
  BY <1>9 DEF RemoveAll, ClearKernel, ClearDesc, EmptyMaps, adderVars
<1>10. CASE AClose
  BY <1>10 DEF AClose, ClearDesc, EmptyMaps, adderVars
<1>11. ASSUME NEW d \in Dirs, DirVanishes(d) PROVE TypeOK'
  BY <1>11 DEF DirVanishes, tableVars, adderVars, NoWd
<1>12. ASSUME NEW d \in Dirs, DirAppears(d) PROVE TypeOK'
  BY <1>12 DEF DirAppears, tableVars, adderVars
<1> QED
  BY <1>1, <1>2, <1>3, <1>4, <1>5, <1>6, <1>7, <1>8, <1>9, <1>10, <1>11, <1>12
  DEF Next, AdderStep, RemoverStep, FileSystem

\* The maps, the descriptors and the kernel's watches keep their types, and a thread
\* holds a watch exactly while it is in add().
THEOREM TypeCorrect == Spec => []TypeOK
<1> DEFINE Inv == TypeOK /\ KernelForEnabled
<1>1. Init => Inv
  BY TypeInit
<1>2. Inv /\ [Next]_vars => Inv'
  BY TypeNext, KernelNext
<1> QED
  BY <1>1, <1>2, PTL DEF Spec

----------------------------------------------------------------------------
(* What leaves m_watches *)

LEMMA ClearForgets ==
  ASSUME TypeOK, NEW C, Clear(C), NEW d \in Wds,
         mWatches[d] # NoWatch, mWatches'[d] = NoWatch
  PROVE  d \notin Live'
<1>1. d \in Descriptors(C)
  BY DEF Clear, ClearMaps
<1>2. \A x \in Dirs : kwd'[x] # d
  BY <1>1 DEF Clear, ClearKernel, Descriptors
<1> QED
  BY <1>2 DEF Live

\* Whatever threads add and whatever aliases the paths have, only removeAll() makes
\* m_watches forget a descriptor that the kernel still watches.
THEOREM OnlyRemoveAllForgets == Spec => ForgetsOnlyDeadWatches
<1> DEFINE Step ==
      \A d \in Wds : mWatches[d] # NoWatch /\ mWatches'[d] = NoWatch =>
        d \notin Live' \/ call'.op = "removeAll"
<1>1. TypeOK /\ [Next]_vars => [Step]_vars
  <2> SUFFICES ASSUME TypeOK, Next, NEW d \in Wds,
                      mWatches[d] # NoWatch, mWatches'[d] = NoWatch
               PROVE  d \notin Live' \/ call'.op = "removeAll"
    OBVIOUS
  <2>1. ASSUME NEW t \in Adders, AdderStep(t) PROVE FALSE
    <3>1. CASE AddByFd(t)
      BY <3>1 DEF AddByFd, MapInsert, TypeOK
    <3> QED
      BY <2>1, <3>1
      DEF AdderStep, AddCheck, AddKernel, AddKernelFails, AddByPath, AddThrows, tableVars
  <2>2. ASSUME NEW p \in Paths, RemoveOne(p) \/ RemoveRec(p) PROVE d \notin Live'
    BY <2>2, ClearForgets DEF RemoveOne, RemoveRec
  <2>3. CASE RemoveAll
    BY <2>3 DEF RemoveAll, Returned
  <2>4. CASE AClose
    BY <2>4 DEF AClose, Live, Wds, NoWd
  <2>5. ASSUME NEW x \in Dirs, DirVanishes(x) \/ DirAppears(x) PROVE FALSE
    BY <2>5 DEF DirVanishes, DirAppears, tableVars
  <2> QED
    BY <2>1, <2>2, <2>3, <2>4, <2>5 DEF Next, RemoverStep, FileSystem
<1> QED
  BY <1>1, TypeCorrect, PTL DEF Spec, ForgetsOnlyDeadWatches

----------------------------------------------------------------------------
(* The coherence of the table when one thread adds *)

\* A descriptor not handed out yet appears nowhere
Bounded ==
  /\ \A d \in Wds : mWatches[d] # NoWatch => d < nextWd
  /\ \A w \in Watches : desc[w] < nextWd
  /\ \A x \in Dirs : kwd[x] < nextWd

\* m_paths holds a watch under its own path
PathsSound == \A p \in Listed : PathOf[mPaths[p]] = p

\* The path being added is not listed: no other thread can have inserted it
InHand == \A t \in Adders : pc[t] # "idle" => PathOf[cur[t]] \notin Listed

Coherent == TypeOK /\ KernelForEnabled /\ Bounded /\ PathsSound /\ InHand

LEMMA CoherentInit == Init => Coherent
<1> SUFFICES ASSUME Init PROVE Bounded /\ PathsSound /\ InHand
  BY TypeInit DEF Coherent
<1> QED
  BY DEF Init, Bounded, PathsSound, InHand, Listed, NoWd

\* What clearWatch() of the watches listed under the paths C leaves
LEMMA ClearEffect ==
  ASSUME Coherent, NEW C \in SUBSET Listed, Clear(C)
  PROVE  /\ Listed' = Listed \ C
         /\ \A p \in Listed' : mPaths'[p] = mPaths[p] /\ desc'[mPaths[p]] = desc[mPaths[p]]
         /\ \A w \in Watches : desc'[w] = desc[w] \/ desc'[w] = NoWd
         /\ \A x \in Dirs : kwd'[x] = kwd[x] \/ kwd'[x] = NoWd
         /\ \A x \in Dirs : kwd'[x] # kwd[x] => kwd[x] \in Descriptors(C)
         /\ Descriptors(C) \cap Live' = {}
         /\ \A d \in Wds : mWatches'[d] = mWatches[d] \/ mWatches'[d] = NoWatch
<1>1. Listed' = Listed \ C
  BY DEF Clear, ClearMaps, Listed
<1>2. ASSUME NEW p \in Listed \ C
      PROVE  mPaths'[p] = mPaths[p] /\ desc'[mPaths[p]] = desc[mPaths[p]]
  <2>1. mPaths'[p] = mPaths[p]
    BY DEF Clear, ClearMaps, Listed
  <2>2. \A q \in C : mPaths[q] # mPaths[p]
    BY DEF Coherent, PathsSound
  <2>3. mPaths[p] \in Watches
    BY DEF Coherent, TypeOK, Listed
  <2> QED
    BY <2>1, <2>2, <2>3 DEF Clear, ClearDesc
<1>3. \A w \in Watches : desc'[w] = desc[w] \/ desc'[w] = NoWd
  BY DEF Clear, ClearDesc
<1>4. \A x \in Dirs : kwd'[x] = IF kwd[x] \in Descriptors(C) THEN NoWd ELSE kwd[x]
  BY DEF Clear, ClearKernel
<1>5. Descriptors(C) \cap Live' = {}
  BY <1>4 DEF Live, Descriptors
<1>6. \A d \in Wds : mWatches'[d] = mWatches[d] \/ mWatches'[d] = NoWatch
  BY DEF Clear, ClearMaps
<1>7. \A p \in Listed' : mPaths'[p] = mPaths[p] /\ desc'[mPaths[p]] = desc[mPaths[p]]
  BY <1>1, <1>2
<1>8. \A x \in Dirs : kwd'[x] = kwd[x] \/ kwd'[x] = NoWd
  BY <1>4
<1>9. \A x \in Dirs : kwd'[x] # kwd[x] => kwd[x] \in Descriptors(C)
  BY <1>4
<1> QED
  BY <1>1, <1>3, <1>5, <1>6, <1>7, <1>8, <1>9

\* A removal that clears the watches of C (removeOneWatch, removeRecWatch)
LEMMA ClearCoherent ==
  ASSUME Coherent, NEW C \in SUBSET Listed, Clear(C), UNCHANGED <<adderVars, nextWd>>
  PROVE  Bounded' /\ PathsSound' /\ InHand'
<1>1. Bounded'
  <2>1. nextWd' \in Nat /\ nextWd' = nextWd /\ nextWd > NoWd
    BY WatchAssumption DEF Coherent, TypeOK, NoWd
  <2> QED
    BY <2>1, ClearEffect DEF Coherent, Bounded
<1>2. PathsSound'
  BY ClearEffect DEF Coherent, PathsSound
<1>3. InHand'
  BY ClearEffect DEF Coherent, InHand, adderVars
<1> QED
  BY <1>1, <1>2, <1>3

LEMMA CoherentNext ==
  ASSUME OneAdder, Coherent, [Next]_vars
  PROVE  Coherent'
<1>1. TypeOK' /\ KernelForEnabled'
  BY TypeNext, KernelNext DEF Coherent
<1>2. Bounded' /\ PathsSound' /\ InHand'
  <2> USE DEF Coherent, TypeOK
  <2>1. CASE UNCHANGED vars
    BY <2>1 DEF vars, tableVars, adderVars, kernelVars, Bounded, PathsSound, InHand, Listed
  <2>2. ASSUME NEW t \in Adders, NEW w \in Watches, AddCheck(t, w)
        PROVE  Bounded' /\ PathsSound' /\ InHand'
    <3>1. /\ desc' = [desc EXCEPT ![w] = NoWd]
          /\ UNCHANGED <<mWatches, mPaths, kwd, nextWd>>
      BY <2>2 DEF AddCheck, AddThrows, kernelVars
    <3>2. Bounded'
      BY <3>1, WatchAssumption DEF Bounded, NoWd
    <3>3. PathsSound'
      BY <3>1 DEF PathsSound, Listed
    <3>4. InHand'
      <4>1. CASE AddThrows(t, w)
        BY <2>2, <4>1, <3>1 DEF AddThrows, OneAdder, InHand
      <4>2. CASE ~AddThrows(t, w)
        <5>1. cur' = [cur EXCEPT ![t] = w] /\ mPaths[PathOf[w]] = NoWatch
          BY <2>2, <4>2 DEF AddCheck
        <5>2. \A u \in Adders : u = t
          BY <2>2 DEF OneAdder
        <5> QED
          BY <5>1, <5>2, <3>1 DEF InHand, Listed
      <4> QED
        BY <4>1, <4>2
    <3> QED
      BY <3>2, <3>3, <3>4
  <2>3. ASSUME NEW t \in Adders, AddKernel(t)
        PROVE  Bounded' /\ PathsSound' /\ InHand'
    <3>1. PICK wd \in Wds :
            /\ wd <= nextWd /\ wd < nextWd'
            /\ desc' = [desc EXCEPT ![cur[t]] = wd]
            /\ kwd' = [kwd EXCEPT ![DirOf[PathOf[cur[t]]]] = wd]
            /\ nextWd' \in {nextWd, nextWd + 1}
            /\ UNCHANGED <<mWatches, mPaths, cur>>
            /\ pc[t] = "kernel" /\ pc' = [pc EXCEPT ![t] = "byFd"]
      <4> DEFINE dir == DirOf[PathOf[cur[t]]]
                 wd == IF kwd[dir] # NoWd THEN kwd[dir] ELSE nextWd
      <4>1. dir \in Dirs
        BY <2>3, WatchAssumption DEF AddKernel
      <4>2. /\ wd \in Wds
            /\ desc' = [desc EXCEPT ![cur[t]] = wd]
            /\ kwd' = [kwd EXCEPT ![dir] = wd]
            /\ nextWd' = IF kwd[dir] # NoWd THEN nextWd ELSE nextWd + 1
            /\ UNCHANGED <<mWatches, mPaths, cur>>
            /\ pc[t] = "kernel" /\ pc' = [pc EXCEPT ![t] = "byFd"]
        BY <2>3 DEF AddKernel
      <4>3. wd <= nextWd /\ wd < nextWd' /\ nextWd' \in {nextWd, nextWd + 1}
        BY <4>1, <4>2 DEF Bounded, Wds
      <4> QED
        BY <4>2, <4>3
    <3>2. Bounded'
      BY <3>1 DEF Bounded, Wds, NoWd
    <3>3. PathsSound' /\ InHand'
      BY <3>1 DEF PathsSound, InHand, Listed
    <3> QED
      BY <3>2, <3>3
  <2>4. ASSUME NEW t \in Adders, AddKernelFails(t)
        PROVE  Bounded' /\ PathsSound' /\ InHand'
    BY <2>4
    DEF AddKernelFails, AddThrows, tableVars, kernelVars, Bounded, PathsSound, InHand, Listed
  <2>5. ASSUME NEW t \in Adders, AddByFd(t)
        PROVE  Bounded' /\ PathsSound' /\ InHand'
    <3>1. cur[t] \in Watches
      BY <2>5 DEF AddByFd
    <3>2. Bounded'
      BY <2>5, <3>1 DEF AddByFd, MapInsert, kernelVars, Bounded
    <3> QED
      BY <2>5, <3>2 DEF AddByFd, PathsSound, InHand, Listed
  <2>6. ASSUME NEW t \in Adders, AddByPath(t)
        PROVE  Bounded' /\ PathsSound' /\ InHand'
    <3>1. Bounded'
      BY <2>6 DEF AddByPath, kernelVars, Bounded
    <3>2. PathsSound'
      BY <2>6 DEF AddByPath, MapInsert, PathsSound, Listed
    <3>3. InHand'
      BY <2>6 DEF AddByPath, InHand, OneAdder
    <3> QED
      BY <3>1, <3>2, <3>3
  <2>7. ASSUME NEW p \in Paths, RemoveOne(p) \/ RemoveRec(p)
        PROVE  Bounded' /\ PathsSound' /\ InHand'
    <3>1. PICK C \in SUBSET Listed : Clear(C)
      BY <2>7 DEF RemoveOne, RemoveRec, Clearable, Cleared
    <3>2. UNCHANGED <<adderVars, nextWd>>
      BY <2>7 DEF RemoveOne, RemoveRec
    <3> QED
      BY <3>1, <3>2, ClearCoherent
  <2>8. CASE RemoveAll \/ AClose
    <3>1. /\ \A w \in Watches : desc'[w] = desc[w] \/ desc'[w] = NoWd
          /\ \A x \in Dirs : kwd'[x] = kwd[x] \/ kwd'[x] = NoWd
          /\ Listed' = {}
          /\ \A d \in Wds : mWatches'[d] = NoWatch
          /\ UNCHANGED <<adderVars, nextWd>>
      BY <2>8 DEF RemoveAll, AClose, ClearKernel, ClearDesc, EmptyMaps, Listed
    <3>2. nextWd \in Nat /\ nextWd > NoWd
      BY WatchAssumption DEF NoWd
    <3> QED
      BY <3>1, <3>2 DEF Bounded, PathsSound, InHand, adderVars
  <2>9. ASSUME NEW d \in Dirs, DirVanishes(d) \/ DirAppears(d)
        PROVE  Bounded' /\ PathsSound' /\ InHand'
    BY <2>9
    DEF DirVanishes, DirAppears, tableVars, adderVars, Bounded, PathsSound, InHand, Listed, NoWd
  <2> QED
    BY <2>1, <2>2, <2>3, <2>4, <2>5, <2>6, <2>7, <2>8, <2>9
    DEF Next, AdderStep, RemoverStep, FileSystem
<1> QED
  BY <1>1, <1>2 DEF Coherent

----------------------------------------------------------------------------
(* A watch that delivers events can be removed *)

LEMMA ClearInFlight ==
  ASSUME Coherent, NEW C \in SUBSET Listed, Clear(C), UNCHANGED adderVars,
         NEW d \in Wds, ~InFlight(d)'
  PROVE  ~InFlight(d)
<1> SUFFICES ASSUME NEW t \in Adders, pc[t] = "byPath", desc[cur[t]] = d
             PROVE  desc'[cur[t]] = d
  BY DEF InFlight, adderVars
<1>1. \A p \in C : mPaths[p] # cur[t]
  BY DEF Coherent, InHand, PathsSound
<1>2. cur[t] \in Watches
  BY DEF Coherent, TypeOK
<1> QED
  BY <1>1, <1>2 DEF Clear, ClearDesc

LEMMA RemovableNext ==
  ASSUME OneAdder, Coherent, LiveWatchRemovable, [Next]_vars
  PROVE  LiveWatchRemovable'
<1> SUFFICES ASSUME NEW d \in Live', mWatches'[d] # NoWatch, ~InFlight(d)'
             PROVE  \E p \in Listed' : desc'[mPaths'[p]] = d
  BY DEF LiveWatchRemovable
<1> USE DEF Coherent, TypeOK
<1>w. d \in Wds
  BY TypeNext DEF Live
<1>1. CASE UNCHANGED vars
  BY <1>1 DEF vars, tableVars, adderVars, kernelVars, LiveWatchRemovable, Listed, Live, InFlight
<1>2. ASSUME NEW t \in Adders, NEW w \in Watches, AddCheck(t, w)
      PROVE  \E p \in Listed' : desc'[mPaths'[p]] = d
  <2>1. /\ desc' = [desc EXCEPT ![w] = NoWd]
        /\ UNCHANGED <<mWatches, mPaths, kwd>>
        /\ Fresh(w) /\ pc[t] = "idle"
    BY <1>2 DEF AddCheck, AddThrows, kernelVars
  <2>2. ~InFlight(d)
    BY <2>1 DEF InFlight, OneAdder
  <2>3. PICK p \in Listed : desc[mPaths[p]] = d
    BY <2>1, <2>2 DEF LiveWatchRemovable, Live
  <2>4. mPaths[p] # w
    BY <2>1 DEF Fresh, Listed
  <2> QED
    BY <2>1, <2>3, <2>4 DEF Listed
<1>3. ASSUME NEW t \in Adders, AddKernel(t)
      PROVE  \E p \in Listed' : desc'[mPaths'[p]] = d
  <2>1. /\ UNCHANGED <<mWatches, mPaths>>
        /\ pc[t] = "kernel"
        /\ \A w \in Watches : w # cur[t] => desc'[w] = desc[w]
        /\ \A x \in Dirs : kwd'[x] = kwd[x] \/ kwd'[x] = nextWd
    BY <1>3 DEF AddKernel
  <2>2. d # nextWd
    BY <1>w, <2>1 DEF Bounded, Wds
  <2>3. d \in Live
    BY <2>1, <2>2 DEF Live
  <2>4. ~InFlight(d)
    BY <2>1 DEF InFlight, OneAdder
  <2>5. PICK p \in Listed : desc[mPaths[p]] = d
    BY <2>1, <2>3, <2>4 DEF LiveWatchRemovable
  <2>6. mPaths[p] # cur[t]
    BY <2>1 DEF InHand, PathsSound
  <2> QED
    BY <2>1, <2>5, <2>6 DEF Listed
<1>4. ASSUME NEW t \in Adders, AddKernelFails(t)
      PROVE  \E p \in Listed' : desc'[mPaths'[p]] = d
  BY <1>4
  DEF AddKernelFails, AddThrows, tableVars, kernelVars, OneAdder, LiveWatchRemovable, Listed,
      Live, InFlight
<1>5. ASSUME NEW t \in Adders, AddByFd(t)
      PROVE  \E p \in Listed' : desc'[mPaths'[p]] = d
  <2>1. /\ UNCHANGED <<mPaths, desc, cur, kwd>>
        /\ pc[t] = "byFd" /\ pc'[t] = "byPath"
    BY <1>5 DEF AddByFd, kernelVars
  <2>2. d # desc[cur[t]]
    BY <2>1 DEF InFlight
  <2>3. mWatches'[d] = mWatches[d]
    BY <1>5, <1>w, <2>2 DEF AddByFd, MapInsert
  <2>4. ~InFlight(d)
    BY <2>1 DEF InFlight, OneAdder
  <2> QED
    BY <2>1, <2>3, <2>4 DEF LiveWatchRemovable, Listed, Live
<1>6. ASSUME NEW t \in Adders, AddByPath(t)
      PROVE  \E p \in Listed' : desc'[mPaths'[p]] = d
  <2>1. /\ UNCHANGED <<mWatches, desc, kwd>>
        /\ pc[t] = "byPath" /\ cur[t] \in Watches
        /\ mPaths' = MapInsert(mPaths, PathOf[cur[t]], cur[t])
    BY <1>6 DEF AddByPath, kernelVars
  <2>2. mPaths[PathOf[cur[t]]] = NoWatch /\ PathOf[cur[t]] \in Paths
    BY <2>1, WatchAssumption DEF InHand, Listed
  <2>3. mPaths' = [mPaths EXCEPT ![PathOf[cur[t]]] = cur[t]]
    BY <2>1, <2>2 DEF MapInsert
  <2>4. CASE InFlight(d)
    <3>1. desc[cur[t]] = d
      BY <2>4, <2>1 DEF InFlight, OneAdder
    <3>2. mPaths'[PathOf[cur[t]]] = cur[t] /\ cur[t] # NoWatch
      BY <2>1, <2>2, <2>3, WatchAssumption
    <3>3. PathOf[cur[t]] \in Listed'
      BY <3>2, <2>2 DEF Listed
    <3> QED
      BY <3>1, <3>2, <3>3, <2>1
  <2>5. CASE ~InFlight(d)
    <3>1. PICK p \in Listed : desc[mPaths[p]] = d
      BY <2>5, <2>1 DEF LiveWatchRemovable, Live
    <3> QED
      BY <3>1, <2>1, <2>2, <2>3 DEF Listed
  <2> QED
    BY <2>4, <2>5
<1>7. ASSUME NEW q \in Paths, RemoveOne(q) \/ RemoveRec(q)
      PROVE  \E p \in Listed' : desc'[mPaths'[p]] = d
  <2>1. PICK C \in SUBSET Listed : Clear(C)
    BY <1>7 DEF RemoveOne, RemoveRec, Clearable, Cleared
  <2>2. UNCHANGED adderVars
    BY <1>7 DEF RemoveOne, RemoveRec
  <2>3. /\ Listed' = Listed \ C
        /\ \A p \in Listed' : mPaths'[p] = mPaths[p] /\ desc'[mPaths[p]] = desc[mPaths[p]]
        /\ \A x \in Dirs : kwd'[x] = kwd[x] \/ kwd'[x] = NoWd
        /\ Descriptors(C) \cap Live' = {}
        /\ mWatches'[d] = mWatches[d]
    BY <2>1, <1>w, ClearEffect
  <2>4. d \in Live
    BY <2>3 DEF Live
  <2>5. ~InFlight(d)
    BY <2>1, <2>2, <1>w, ClearInFlight
  <2>6. PICK p \in Listed : desc[mPaths[p]] = d
    BY <2>3, <2>4, <2>5 DEF LiveWatchRemovable
  <2>7. p \notin C
    BY <2>3, <2>6, <1>w DEF Descriptors, Wds, NoWd
  <2> QED
    BY <2>3, <2>6, <2>7
<1>8. CASE RemoveAll \/ AClose
  BY <1>8, <1>w DEF RemoveAll, AClose, EmptyMaps
<1>9. ASSUME NEW x \in Dirs, DirVanishes(x) \/ DirAppears(x)
      PROVE  \E p \in Listed' : desc'[mPaths'[p]] = d
  BY <1>9
  DEF DirVanishes, DirAppears, tableVars, adderVars, LiveWatchRemovable, Listed, Live, InFlight
<1> QED
  BY <1>1, <1>2, <1>3, <1>4, <1>5, <1>6, <1>7, <1>8, <1>9
  DEF Next, AdderStep, RemoverStep, FileSystem

\* With one thread in add() at a time, every watch that delivers events is listed under a
\* path, so that the user can see it and remove it.
THEOREM WatchesRemovable ==
  ASSUME OneAdder
  PROVE  Spec => []LiveWatchRemovable
<1>1. Init => Coherent /\ LiveWatchRemovable
  BY CoherentInit DEF Init, LiveWatchRemovable, Live
<1>2. Coherent /\ LiveWatchRemovable /\ [Next]_vars => Coherent' /\ LiveWatchRemovable'
  BY CoherentNext, RemovableNext
<1> QED
  BY <1>1, <1>2, PTL DEF Spec

----------------------------------------------------------------------------
(* What is listed is watched *)

\* Descriptors in the watches and in the kernel belong to the directory they were made for
DescSound ==
  /\ \A w \in Watches : desc[w] # NoWd => wdDir[desc[w]] = DirOf[PathOf[w]]
  /\ \A x \in Dirs : kwd[x] # NoWd => wdDir[kwd[x]] = x

\* The kernel watches the directory of w under w's descriptor, or has dropped it
Held(w) ==
  /\ desc[w] # NoWd
  /\ desc[w] = kwd[DirOf[PathOf[w]]] \/ desc[w] \in vanished

\* Held of the watch w itself in the next state
HeldNext(w) ==
  /\ desc'[w] # NoWd
  /\ desc'[w] = kwd'[DirOf[PathOf[w]]] \/ desc'[w] \in vanished'

\* The same for the watch whose addition is under way
HandHeld ==
  fdOpen => \A t \in Adders :
    pc[t] = "byFd" \/ (pc[t] = "byPath" /\ cur[t] \in Enabled) => Held(cur[t])

ListedHeld == fdOpen => \A p \in Listed : mPaths[p] \in Enabled => Held(mPaths[p])

Watched == Coherent /\ DescSound /\ HandHeld /\ ListedHeld

LEMMA ClearKeepsHeld ==
  ASSUME NoAliases, Coherent, DescSound, NEW C \in SUBSET Listed,
         ClearKernel(C), ClearDesc(C), UNCHANGED vanished,
         NEW w \in Watches, PathOf[w] \notin C, Held(w)
  PROVE  Held(w)'
<1> USE WatchAssumption DEF Coherent, TypeOK
<1>1. desc'[w] = desc[w]
  BY DEF ClearDesc, PathsSound
<1>2. ASSUME NEW q \in C, desc[mPaths[q]] = desc[w] PROVE FALSE
  <2>1. mPaths[q] \in Watches /\ PathOf[mPaths[q]] = q /\ q \in Paths
    BY DEF PathsSound, Listed
  <2>2. wdDir[desc[w]] = DirOf[q] /\ wdDir[desc[w]] = DirOf[PathOf[w]]
    BY <1>2, <2>1 DEF DescSound, Held
  <2> QED
    BY <2>1, <2>2 DEF NoAliases
<1>3. kwd[DirOf[PathOf[w]]] = desc[w] => kwd'[DirOf[PathOf[w]]] = desc[w]
  BY <1>2 DEF ClearKernel, Descriptors
<1> QED
  BY <1>1, <1>3 DEF Held

LEMMA DescSoundNext ==
  ASSUME Coherent, DescSound, [Next]_vars
  PROVE  DescSound'
<1> USE WatchAssumption DEF Coherent, TypeOK
<1>1. ASSUME NEW t \in Adders, AddKernel(t) PROVE DescSound'
  <2> DEFINE w == cur[t]
             dir == DirOf[PathOf[w]]
             wd == IF kwd[dir] # NoWd THEN kwd[dir] ELSE nextWd
  <2>1. /\ w \in Watches /\ dir \in Dirs /\ wd \in Wds
        /\ wdDir' = [wdDir EXCEPT ![wd] = dir]
        /\ desc' = [desc EXCEPT ![w] = wd]
        /\ kwd' = [kwd EXCEPT ![dir] = wd]
    BY <1>1 DEF AddKernel
  <2>2. kwd[dir] = NoWd => /\ \A v \in Watches : desc[v] # wd
                           /\ \A x \in Dirs : kwd[x] # wd
    BY DEF Bounded
  <2>3. kwd[dir] # NoWd => wdDir' = wdDir
    BY <2>1 DEF DescSound
  <2> HIDE DEF w, dir, wd
  <2> QED
    BY <2>1, <2>2, <2>3 DEF DescSound, w, dir
<1>2. ASSUME UNCHANGED wdDir,
             \A w \in Watches : desc'[w] = desc[w] \/ desc'[w] = NoWd,
             \A x \in Dirs : kwd'[x] = kwd[x] \/ kwd'[x] = NoWd
      PROVE  DescSound'
  BY <1>2 DEF DescSound
<1>3. ASSUME NEW t \in Adders, NEW w \in Watches, AddCheck(t, w) PROVE DescSound'
  BY <1>3, <1>2 DEF AddCheck, AddThrows, kernelVars
<1>4. ASSUME NEW t \in Adders, AddKernelFails(t) \/ AddByFd(t) \/ AddByPath(t) PROVE DescSound'
  BY <1>4, <1>2 DEF AddKernelFails, AddByFd, AddByPath, AddThrows, tableVars, kernelVars
<1>5. ASSUME NEW p \in Paths, RemoveOne(p) \/ RemoveRec(p) PROVE DescSound'
  BY <1>5, <1>2 DEF RemoveOne, RemoveRec, Clear, ClearKernel, ClearDesc
<1>6. CASE RemoveAll \/ AClose
  BY <1>6, <1>2 DEF RemoveAll, AClose, ClearKernel, ClearDesc
<1>7. ASSUME NEW d \in Dirs, DirVanishes(d) \/ DirAppears(d) PROVE DescSound'
  BY <1>7, <1>2 DEF DirVanishes, DirAppears, tableVars
<1>8. CASE UNCHANGED vars
  BY <1>8, <1>2 DEF vars, tableVars, kernelVars
<1> QED
  BY <1>1, <1>3, <1>4, <1>5, <1>6, <1>7, <1>8 DEF Next, AdderStep, RemoverStep, FileSystem

LEMMA WatchedNext ==
  ASSUME OneAdder, NoAliases, Watched, [Next]_vars
  PROVE  HandHeld' /\ ListedHeld'
<1> USE WatchAssumption DEF Watched, Coherent, TypeOK
<1> SUFFICES ASSUME fdOpen' PROVE HandHeld' /\ ListedHeld'
  BY DEF HandHeld, ListedHeld
<1>1. CASE UNCHANGED vars
  BY <1>1
  DEF vars, tableVars, adderVars, kernelVars, HandHeld, ListedHeld, Listed, Held
<1>2. ASSUME NEW t \in Adders, NEW w \in Watches, AddCheck(t, w)
      PROVE  HandHeld' /\ ListedHeld'
  <2>1. /\ desc' = [desc EXCEPT ![w] = NoWd]
        /\ UNCHANGED <<mPaths, fdOpen, kwd, vanished>>
        /\ Fresh(w)
    BY <1>2 DEF AddCheck, AddThrows, kernelVars
  <2>2. \A p \in Listed : mPaths[p] # w
    BY <2>1 DEF Fresh, Listed
  <2>3. ListedHeld'
    BY <2>1, <2>2 DEF ListedHeld, Listed, Held
  <2>4. ~(pc'[t] = "byFd") /\ ~(pc'[t] = "byPath" /\ cur'[t] \in Enabled)
    <3>1. CASE AddThrows(t, w)
      BY <3>1 DEF AddThrows
    <3>2. CASE ~AddThrows(t, w)
      BY <1>2, <3>2 DEF AddCheck
    <3> QED
      BY <3>1, <3>2
  <2>5. HandHeld'
    BY <2>4 DEF HandHeld, OneAdder
  <2> QED
    BY <2>3, <2>5
<1>3. ASSUME NEW t \in Adders, AddKernel(t)
      PROVE  HandHeld' /\ ListedHeld'
  <2> DEFINE w == cur[t]
             dir == DirOf[PathOf[w]]
  <2>1. PICK wd \in Wds : /\ kwd' = [kwd EXCEPT ![dir] = wd]
                          /\ desc' = [desc EXCEPT ![w] = wd]
    BY <1>3 DEF AddKernel
  <2>2. /\ w \in Watches /\ PathOf[w] \notin Listed
        /\ UNCHANGED <<mPaths, fdOpen, vanished, cur>>
    BY <1>3 DEF AddKernel, InHand
  <2>3. HeldNext(w)
    <3>0. wd # NoWd
      BY DEF Wds, NoWd
    <3>1. dir \in Dirs
      BY <2>2
    <3>2. desc'[w] = wd /\ kwd'[dir] = wd
      BY <2>1, <2>2, <3>1
    <3> QED
      BY <3>0, <3>2 DEF HeldNext
  <2>4. HandHeld'
    BY <2>2, <2>3 DEF HandHeld, Held, HeldNext, OneAdder
  <2>5. ASSUME NEW p \in Listed, mPaths[p] \in Enabled PROVE HeldNext(mPaths[p])
    <3>1. mPaths[p] # w /\ PathOf[mPaths[p]] = p /\ mPaths[p] \in Watches /\ p \in Paths
      BY <2>2 DEF PathsSound, Listed
    <3>2. DirOf[p] # dir
      BY <2>2, <3>1 DEF NoAliases
    <3>3. Held(mPaths[p])
      BY <2>2, <2>5 DEF ListedHeld
    <3> QED
      BY <2>1, <2>2, <3>1, <3>2, <3>3 DEF Held, HeldNext
  <2>6. ListedHeld'
    BY <2>2, <2>5 DEF ListedHeld, Listed, Held, HeldNext
  <2> QED
    BY <2>4, <2>6
<1>4. ASSUME NEW t \in Adders, AddKernelFails(t)
      PROVE  HandHeld' /\ ListedHeld'
  BY <1>4
  DEF AddKernelFails, AddThrows, tableVars, kernelVars, OneAdder, HandHeld, ListedHeld,
      Listed, Held
<1>5. ASSUME NEW t \in Adders, AddByFd(t)
      PROVE  HandHeld' /\ ListedHeld'
  <2>1. pc[t] = "byFd" /\ UNCHANGED <<mPaths, desc, fdOpen, cur, kwd, vanished>>
    BY <1>5 DEF AddByFd, kernelVars
  <2>2. Held(cur[t])
    BY <2>1 DEF HandHeld
  <2>3. HandHeld'
    BY <2>1, <2>2 DEF HandHeld, Held, OneAdder
  <2>4. ListedHeld'
    BY <2>1 DEF ListedHeld, Listed, Held
  <2> QED
    BY <2>3, <2>4
<1>6. ASSUME NEW t \in Adders, AddByPath(t)
      PROVE  HandHeld' /\ ListedHeld'
  <2>1. /\ pc[t] = "byPath" /\ UNCHANGED <<desc, fdOpen, kwd, vanished>>
        /\ pc' = [pc EXCEPT ![t] = "idle"]
        /\ mPaths' = MapInsert(mPaths, PathOf[cur[t]], cur[t])
    BY <1>6 DEF AddByPath, kernelVars
  <2>2. HandHeld'
    BY <2>1 DEF HandHeld, OneAdder
  <2>3. \A p \in Listed' : mPaths'[p] = cur[t] \/ (p \in Listed /\ mPaths'[p] = mPaths[p])
    BY <2>1 DEF MapInsert, Listed
  <2>4. cur[t] \in Enabled => Held(cur[t])
    BY <2>1 DEF HandHeld
  <2>5. ListedHeld'
    BY <2>1, <2>3, <2>4 DEF ListedHeld, Held
  <2> QED
    BY <2>2, <2>5
<1>7. ASSUME NEW q, RemoveOne(q) \/ RemoveRec(q) \/ RemoveAll
      PROVE  HandHeld' /\ ListedHeld'
  <2>1. PICK C \in SUBSET Listed :
             /\ ClearKernel(C) /\ ClearDesc(C)
             /\ Listed' \subseteq Listed \ C
             /\ \A p \in Listed' : mPaths'[p] = mPaths[p]
    <3>1. CASE RemoveAll
      BY <3>1 DEF RemoveAll, EmptyMaps, Cleared, FirstListed, Listed
    <3>2. CASE ~RemoveAll
      <4>1. PICK C \in SUBSET Listed : Clear(C)
        BY <1>7, <3>2 DEF RemoveOne, RemoveRec, Clearable, Cleared
      <4> QED
        BY <4>1, ClearEffect DEF Clear
    <3> QED
      BY <3>1, <3>2
  <2>2. UNCHANGED <<fdOpen, adderVars, vanished>>
    BY <1>7 DEF RemoveOne, RemoveRec, RemoveAll
  <2>3. \A w \in Watches : PathOf[w] \notin C /\ Held(w) => HeldNext(w)
    BY <2>1, <2>2, ClearKeepsHeld DEF Held, HeldNext
  <2>4. HandHeld'
    BY <2>2, <2>3 DEF HandHeld, InHand, Held, HeldNext, adderVars
  <2>5. ASSUME NEW p \in Listed', mPaths'[p] \in Enabled PROVE HeldNext(mPaths'[p])
    <3>1. mPaths[p] \in Watches /\ PathOf[mPaths[p]] = p /\ p \notin C
      BY <2>1 DEF PathsSound, Listed
    <3>2. Held(mPaths[p])
      BY <2>1, <2>2, <2>5 DEF ListedHeld
    <3> QED
      BY <2>1, <2>3, <3>1, <3>2
  <2>6. ListedHeld'
    BY <2>5 DEF ListedHeld, Held, HeldNext
  <2> QED
    BY <2>4, <2>6
<1>8. CASE AClose
  BY <1>8 DEF AClose
<1>9. ASSUME NEW x \in Dirs, DirVanishes(x) \/ DirAppears(x)
      PROVE  HandHeld' /\ ListedHeld'
  <2>1. UNCHANGED <<tableVars, adderVars>>
    BY <1>9 DEF DirVanishes, DirAppears
  <2>2. ASSUME NEW w \in Watches, Held(w) PROVE HeldNext(w)
    <3>1. DirOf[PathOf[w]] \in Dirs
      OBVIOUS
    <3>2. CASE DirVanishes(x)
      BY <2>2, <3>1, <3>2 DEF DirVanishes, Held, HeldNext, tableVars
    <3>3. CASE DirAppears(x)
      BY <2>2, <3>3 DEF DirAppears, Held, HeldNext, tableVars
    <3> QED
      BY <1>9, <3>2, <3>3
  <2>3. HandHeld'
    BY <2>1, <2>2 DEF HandHeld, Held, HeldNext, tableVars, adderVars
  <2>4. ASSUME NEW p \in Listed, mPaths[p] \in Enabled PROVE HeldNext(mPaths[p])
    <3>1. mPaths[p] \in Watches /\ Held(mPaths[p])
      BY <2>1, <2>4 DEF ListedHeld, Listed, tableVars
    <3> QED
      BY <2>2, <3>1
  <2>5. ListedHeld'
    BY <2>1, <2>4 DEF ListedHeld, Listed, Held, HeldNext, tableVars
  <2> QED
    BY <2>3, <2>5
<1> QED
  BY <1>1, <1>2, <1>3, <1>4, <1>5, <1>6, <1>7, <1>8, <1>9
  DEF Next, AdderStep, RemoverStep, FileSystem

\* With one thread in add() at a time and no directory reached by two paths, every enabled
\* watch that list shows is the one the kernel holds for its directory, or the directory
\* was deleted behind the program's back.
THEOREM ListIsTrue ==
  ASSUME OneAdder, NoAliases
  PROVE  Spec => []ListedIsWatched
<1>1. Init => Watched
  BY CoherentInit DEF Init, Watched, DescSound, HandHeld, ListedHeld, Listed
<1>2. Watched /\ [Next]_vars => Watched'
  BY CoherentNext, DescSoundNext, WatchedNext DEF Watched
<1>3. Watched => ListedIsWatched
  BY DEF Watched, Coherent, PathsSound, ListedHeld, Held, ListedIsWatched
<1> QED
  BY <1>1, <1>2, <1>3, PTL DEF Spec
----------------------------------------------------------------------------
(* What a removal that answers success leaves *)

\* A closed descriptor has no watches
ClosedIsQuiet == ~fdOpen => Live = {}

Settled == Coherent /\ DescSound /\ ClosedIsQuiet

LEMMA QuietNext ==
  ASSUME Coherent, ClosedIsQuiet, [Next]_vars
  PROVE  ClosedIsQuiet'
<1> SUFFICES ASSUME ~fdOpen' PROVE Live' = {}
  BY DEF ClosedIsQuiet
<1> USE DEF Coherent, TypeOK
<1>1. ASSUME UNCHANGED fdOpen, \A x \in Dirs : kwd'[x] = kwd[x] \/ kwd'[x] = NoWd
      PROVE  Live' = {}
  <2>1. Live = {}
    BY <1>1 DEF ClosedIsQuiet
  <2>2. \A x \in Dirs : kwd[x] = NoWd
    BY <2>1 DEF Live
  <2>3. \A x \in Dirs : kwd'[x] = NoWd
    BY <1>1, <2>2
  <2> QED
    BY <2>3 DEF Live
<1>2. ASSUME NEW t \in Adders, AdderStep(t) PROVE Live' = {}
  BY <1>1, <1>2
  DEF AdderStep, AddCheck, AddThrows, AddKernel, AddKernelFails, AddByFd, AddByPath,
      tableVars, kernelVars
<1>3. ASSUME NEW p \in Paths, RemoveOne(p) \/ RemoveRec(p) PROVE Live' = {}
  BY <1>1, <1>3 DEF RemoveOne, RemoveRec, Clear, ClearKernel
<1>4. CASE RemoveAll
  BY <1>4 DEF RemoveAll
<1>5. CASE AClose
  BY <1>5 DEF AClose, Live
<1>6. ASSUME NEW x \in Dirs, DirVanishes(x) \/ DirAppears(x) PROVE Live' = {}
  BY <1>1, <1>6 DEF DirVanishes, DirAppears, tableVars
<1>7. CASE UNCHANGED vars
  BY <1>1, <1>7 DEF vars, tableVars, kernelVars
<1> QED
  BY <1>2, <1>3, <1>4, <1>5, <1>6, <1>7 DEF Next, RemoverStep, FileSystem

\* The first path of S whose watch could not be cleared stays listed, and is dead
LEMMA ClearStopsAtDead ==
  ASSUME NoAliases, Settled, NEW S \in SUBSET Listed, Clear(Clearable(S)),
         NEW p \in S \cap Listed'
  PROVE  \E q \in S \cap Listed' : q <= p /\ desc'[mPaths'[q]] \notin Live'
<1> USE WatchAssumption DEF Settled, Coherent, TypeOK
<1>0. Clearable(S) \in SUBSET Listed
  BY DEF Clearable, Cleared
<1>1. /\ Listed' = Listed \ Clearable(S)
      /\ \A q \in Listed' : mPaths'[q] = mPaths[q] /\ desc'[mPaths[q]] = desc[mPaths[q]]
      /\ \A x \in Dirs : kwd'[x] = kwd[x] \/ kwd'[x] = NoWd
  BY <1>0, ClearEffect
<1>2. p \in S /\ p \in Nat /\ p \notin Clearable(S)
  BY <1>1 DEF Listed
<1>3. Live' \subseteq Live
  BY <1>1 DEF Live
<1>4. CASE ~fdOpen
  <2>1. Live = {}
    BY <1>4 DEF ClosedIsQuiet
  <2> QED
    BY <1>2, <1>3, <2>1
<1>5. CASE fdOpen
  <2>1. PICK q \in S : q <= p /\ ClearFails(S, q)
    BY <1>2, <1>5 DEF Clearable, Cleared
  <2>2. q \in Nat /\ q \notin Clearable(S)
    BY <1>5, <2>1 DEF Clearable, Cleared, Listed
  <2>3. q \in S \cap Listed'
    BY <1>1, <2>2
  <2>4. ASSUME NEW r \in S, r < q, desc[mPaths[r]] = desc[mPaths[q]] PROVE FALSE
    <3>1. /\ mPaths[r] \in Watches /\ PathOf[mPaths[r]] = r /\ r \in Nat
          /\ mPaths[q] \in Watches /\ PathOf[mPaths[q]] = q
      BY DEF PathsSound, Listed
    <3>2. desc[mPaths[q]] # NoWd /\ desc[mPaths[r]] # NoWd
      BY <2>1, <2>4 DEF ClearFails
    <3>3. wdDir[desc[mPaths[q]]] = DirOf[r] /\ wdDir[desc[mPaths[q]]] = DirOf[q]
      BY <2>4, <3>1, <3>2 DEF DescSound
    <3>4. r = q
      BY <3>1, <3>3 DEF NoAliases, Listed
    <3> QED
      BY <2>2, <2>4, <3>4
  <2>5. desc[mPaths[q]] \notin Live
    BY <2>1, <2>4 DEF ClearFails
  <2> QED
    BY <1>1, <1>3, <2>1, <2>3, <2>5
<1> QED
  BY <1>4, <1>5

LEMMA RemovalNext ==
  ASSUME NoAliases, Settled, RemovalStopsAtDead, [Next]_vars
  PROVE  RemovalStopsAtDead'
<1> USE WatchAssumption DEF Settled, Coherent, TypeOK
<1>1. ASSUME UNCHANGED <<call, mPaths>>,
             \A q \in Listed : /\ desc'[mPaths[q]] = desc[mPaths[q]]
                               /\ desc[mPaths[q]] \in Live' => desc[mPaths[q]] \in Live
      PROVE  RemovalStopsAtDead'
  BY <1>1 DEF RemovalStopsAtDead, Removed, Listed
<1>2. ASSUME call'.op \notin {"removeOne", "removeRec"} PROVE RemovalStopsAtDead'
  BY <1>2 DEF RemovalStopsAtDead
<1>3. CASE UNCHANGED vars
  BY <1>1, <1>3 DEF vars, tableVars, kernelVars, Live
<1>4. ASSUME NEW t \in Adders, NEW w \in Watches, AddCheck(t, w)
      PROVE  RemovalStopsAtDead'
  <2>1. CASE AddThrows(t, w)
    BY <1>2, <2>1 DEF AddThrows, Returned
  <2>2. CASE ~AddThrows(t, w)
    <3>1. /\ desc' = [desc EXCEPT ![w] = NoWd] /\ Fresh(w)
          /\ UNCHANGED <<call, mPaths, kwd>>
      BY <1>4, <2>2 DEF AddCheck, kernelVars
    <3>2. \A q \in Listed : mPaths[q] # w
      BY <3>1 DEF Fresh, Listed
    <3> QED
      BY <1>1, <3>1, <3>2 DEF Live, Listed
  <2> QED
    BY <2>1, <2>2
<1>5. ASSUME NEW t \in Adders, AddKernel(t)
      PROVE  RemovalStopsAtDead'
  <2>1. /\ UNCHANGED <<mPaths, call>> /\ pc[t] = "kernel"
        /\ \A w \in Watches : w # cur[t] => desc'[w] = desc[w]
        /\ \A x \in Dirs : kwd'[x] \in Live \/ kwd'[x] = kwd[x] \/ kwd'[x] = nextWd
    BY <1>5 DEF AddKernel, Live
  <2>2. ASSUME NEW q \in Listed PROVE mPaths[q] \in Watches /\ mPaths[q] # cur[t]
    <3>1. PathOf[mPaths[q]] = q /\ mPaths[q] \in Watches
      BY DEF PathsSound, Listed
    <3>2. PathOf[cur[t]] \notin Listed
      BY <2>1 DEF InHand
    <3> QED
      BY <3>1, <3>2
  <2>3. \A q \in Listed : desc[mPaths[q]] # nextWd
    BY <2>2 DEF Bounded, Wds, NoWd
  <2> QED
    BY <1>1, <2>1, <2>2, <2>3 DEF Live
<1>6. ASSUME NEW t \in Adders, AddKernelFails(t) \/ AddByPath(t)
      PROVE  RemovalStopsAtDead'
  BY <1>2, <1>6 DEF AddKernelFails, AddByPath, AddThrows, Returned
<1>7. ASSUME NEW t \in Adders, AddByFd(t)
      PROVE  RemovalStopsAtDead'
  BY <1>1, <1>7 DEF AddByFd, kernelVars, Live
<1>8. ASSUME NEW x \in Paths, RemoveOne(x) \/ RemoveRec(x)
      PROVE  RemovalStopsAtDead'
  <2> DEFINE R == IF call'.op = "removeOne" THEN {x} ELSE Covers[x]
  <2>1. Clear(Clearable(R \cap Listed)) /\ Removed' = R
    <3>1. CASE RemoveOne(x)
      <4>1. call'.op = "removeOne" /\ call'.path = x
        BY <3>1 DEF RemoveOne, Returned
      <4> QED
        BY <3>1, <4>1 DEF RemoveOne, Removed
    <3>2. CASE RemoveRec(x)
      <4>1. call'.op = "removeRec" /\ call'.path = x
        BY <3>2 DEF RemoveRec, Returned
      <4> QED
        BY <3>2, <4>1 DEF RemoveRec, Removed
    <3> QED
      BY <1>8, <3>1, <3>2
  <2>2. Listed' \subseteq Listed
    BY <2>1 DEF Clear, ClearMaps, Listed
  <2> HIDE DEF R
  <2>3. \A p \in R \cap Listed' :
          \E q \in R \cap Listed' : q <= p /\ desc'[mPaths'[q]] \notin Live'
    <3> SUFFICES ASSUME NEW p \in R \cap Listed'
                 PROVE  \E q \in R \cap Listed' : q <= p /\ desc'[mPaths'[q]] \notin Live'
      OBVIOUS
    <3>1. (R \cap Listed) \in SUBSET Listed /\ p \in (R \cap Listed) \cap Listed'
      BY <2>2
    <3> QED
      BY <2>1, <3>1, ClearStopsAtDead
  <2> QED
    BY <2>1, <2>3 DEF RemovalStopsAtDead
<1>9. CASE RemoveAll \/ AClose
  BY <1>2, <1>9 DEF RemoveAll, AClose, Returned
<1>10. ASSUME NEW x \in Dirs, DirVanishes(x) \/ DirAppears(x)
       PROVE  RemovalStopsAtDead'
  BY <1>1, <1>10 DEF DirVanishes, DirAppears, tableVars, Live, NoWd
<1> QED
  BY <1>3, <1>4, <1>5, <1>6, <1>7, <1>8, <1>9, <1>10
  DEF Next, AdderStep, RemoverStep, FileSystem

\* With one thread in add() at a time and no directory reached by two paths, a removal that
\* answered success has left a path listed only behind one whose directory is dead.
THEOREM RemovalsStopAtDead ==
  ASSUME OneAdder, NoAliases
  PROVE  Spec => []RemovalStopsAtDead
<1>1. Init => Settled /\ RemovalStopsAtDead
  BY CoherentInit DEF Init, Settled, DescSound, ClosedIsQuiet, RemovalStopsAtDead, Returned
<1>2. Settled /\ RemovalStopsAtDead /\ [Next]_vars => Settled' /\ RemovalStopsAtDead'
  BY CoherentNext, DescSoundNext, QuietNext, RemovalNext DEF Settled
<1> QED
  BY <1>1, <1>2, PTL DEF Spec
================================================================================
