--------------------------- MODULE MCANotifyWatches ---------------------------
(* Instances of ANotifyWatches for TLC. *)
EXTENDS ANotifyWatches

CONSTANTS w1, w2, w3, w4, a, b, c

MCPaths == 1..3

\* One watch object per path; an object no map refers to stands for a new one
MCWatches == {w1, w2, w3}
MCPathOf == [w \in MCWatches |-> CASE w = w1 -> 1 [] w = w2 -> 2 [] OTHER -> 3]

\* Path 1 is a prefix of path 2 ("/d/" and "/d/e/"), path 3 stands apart
MCCovers == [p \in MCPaths |-> IF p = 1 THEN {1, 2} ELSE {p}]

MCDirs == {a, b, c}
MCOwnDirs == [p \in MCPaths |-> CASE p = 1 -> a [] p = 2 -> b [] OTHER -> c]

\* A smaller table for two adders: path 2 is a symlink to the directory of path 1
MCFewPaths == 1..2
MCFewWatches == {w1, w2, w4}
MCFewPathOf == [w \in MCFewWatches |-> IF w = w2 THEN 2 ELSE 1]
MCFewCovers == [p \in MCFewPaths |-> {p}]
MCFewDirs == {a}
MCAliased == [p \in MCFewPaths |-> a]
================================================================================
