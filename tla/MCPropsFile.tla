------------------------------ MODULE MCPropsFile ------------------------------
(* Instance of PropsFile for TLC. *)
EXTENDS PropsFile

CONSTANTS a, b, c

\* The process number of a is used again for c.
MCPid == [d \in {a, b, c} |-> IF d = b THEN 2 ELSE 1]
================================================================================
