---------------------------- MODULE MCANotifyDaemon ----------------------------
(* Instances of ANotifyDaemon for TLC. *)
EXTENDS ANotifyDaemon

CONSTANTS d1, d2, home, missing, c1, c2

\* A path with two directories and a path that does not exist; one client gives every
\* command, the other stops and restarts as well
MCDirs == {d1, d2}
MCPaths == {home, missing}
MCTree == [p \in MCPaths |-> IF p = home THEN <<d1, d2>> ELSE <<>>]
MCSends == [c \in {c1, c2} |-> IF c = c1 THEN Ops ELSE {"stop", "restart"}]

\* One path with one directory; one client gives every command but start, which the daemon
\* gives itself when it comes up, the other kills the daemon
MCHome     == {home}
MCOneDir   == [p \in MCHome |-> <<d1>>]
MCSendsTwo == [c \in {c1, c2} |-> IF c = c1 THEN Ops \ {"start"} ELSE {"kill"}]
================================================================================
