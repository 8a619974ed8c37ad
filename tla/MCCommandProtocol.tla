--------------------------- MODULE MCCommandProtocol ---------------------------
(* Instance of CommandProtocol for TLC. *)
EXTENDS CommandProtocol

CONSTANTS c1, c2

Full == {[op |-> "S", flag |-> "Y", path |-> <<"a", "b">>], [op |-> "S", flag |-> "N", path |-> <<>>],
               [op |-> "D", flag |-> "N", path |-> <<"b">>], [op |-> "L", flag |-> "-", path |-> <<>>],
               [op |-> "K", flag |-> "-", path |-> <<>>]}

\* The second client asks for the list.
MCRequests == [c \in {c1, c2} |-> IF c = c1 THEN Full ELSE {r \in Full : r.op = "L"}]

MCDigits == <<"0", "1", "2", "3">>

MCListings == {<<>>, <<<<"a">>, <<"a", "b">>>>}

\* The first client types two lines.
MCMaxLines == [c \in {c1, c2} |-> IF c = c1 THEN 2 ELSE 1]
================================================================================
