------------------------------- MODULE MCUftp -------------------------------
(***************************************************************************)
(* A small instance of Uftp for TLC: which files there are at the start.   *)
(***************************************************************************)
EXTENDS Uftp, TLC

CONSTANTS c1, c2, f, g

\* The client has a long file and, perhaps, a short one; the server has a
\* file of that name, or none.  Buf is 2: lengths 0 and 1 are short, 2 is
\* one full block, 3 is a block and some, 4 and more are several.
Mine == {<<>>, <<"a1">>, <<"a1", "a2">>, <<"a1", "a2", "a3">>, Absent}
Theirs == {<<"b1", "b2", "b3">>, <<"b1">>, Absent}
MCInit == \E mine \in Mine, theirs \in Theirs :
            Start([c \in Client |-> [x \in File |-> mine]], [x \in File |-> theirs])
MCSpec == MCInit /\ [][Next]_vars /\ Fairness
=============================================================================
