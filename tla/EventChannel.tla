----------------------------- MODULE EventChannel -----------------------------
(***************************************************************************)
(* What the event queue of ANotify promises to the loop of the daemon that  *)
(* calls getEvent(): a first-in first-out channel.  Every event the kernel  *)
(* accepted is taken once, in the order it happened; the only events that   *)
(* may be lost are those of a watch the kernel holds and the program does   *)
(* not know (yet, or any more), and those of a watch that is removed.       *)
(*                                                                          *)
(* Events are numbered as they happen, so that the channel is a set: the    *)
(* numbers are the order.                                                   *)
(***************************************************************************)
EXTENDS Naturals, Sequences

CONSTANTS
  Wds,       \* watch descriptors
  MaxEvents  \* bound: number of events that happen

VARIABLES
  watch,     \* [Wds -> {"none", "kernel", "watched", "removed"}]
  chan,      \* the events accepted and not taken
  out        \* history: the events taken, oldest first

chanVars == <<watch, chan, out>>

Events == [id : 1..MaxEvents, wd : Wds]

Init ==
  /\ watch \in [Wds -> {"none", "watched"}]
  /\ chan = {}
  /\ out = <<>>

\* An event of a directory that is watched: newer than all before it
Post(e) ==
  /\ watch[e.wd] \in {"kernel", "watched"}
  /\ \A f \in chan : f.id < e.id
  /\ \A i \in 1..Len(out) : out[i].id < e.id
  /\ chan' = chan \cup {e}
  /\ UNCHANGED <<watch, out>>

\* The kernel holds the watch, the program gets to know it, the program forgets it
Change(d) ==
  /\ \/ watch[d] = "none" /\ watch' = [watch EXCEPT ![d] = "kernel"]
     \/ watch[d] = "kernel" /\ watch' = [watch EXCEPT ![d] = "watched"]
     \/ watch[d] = "watched" /\ watch' = [watch EXCEPT ![d] = "kernel"]
  /\ UNCHANGED <<chan, out>>

\* An event of a watch the program does not know may be lost
Lose(e) ==
  /\ watch[e.wd] = "kernel"
  /\ chan' = chan \ {e}
  /\ UNCHANGED <<watch, out>>

\* The newest events of a removed watch, those after n, are lost with it
RemoveWatch(d, n) ==
  /\ watch[d] \in {"kernel", "watched"}
  /\ watch' = [watch EXCEPT ![d] = "removed"]
  /\ chan' = {e \in chan : e.wd # d \/ e.id <= n}
  /\ UNCHANGED out

\* The oldest event
Take(e) ==
  /\ \A f \in chan : e.id <= f.id
  /\ out' = Append(out, e)
  /\ chan' = chan \ {e}
  /\ UNCHANGED watch

Next ==
  \/ \E e \in Events : Post(e)
  \/ \E d \in Wds : Change(d)
  \/ \E e \in chan : Lose(e) \/ Take(e)
  \/ \E d \in Wds, n \in 0..MaxEvents : RemoveWatch(d, n)

Spec == Init /\ [][Next]_chanVars
================================================================================
