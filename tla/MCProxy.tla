------------------------------- MODULE MCProxy -------------------------------
(***************************************************************************)
(* Small instances of Proxy for TLC: how long the versions of a page are,  *)
(* and what may happen.                                                    *)
(***************************************************************************)
EXTENDS Proxy, TLC

CONSTANTS p1, p2, h1, h2     \* model values: processes and hosts

\* The second version is shorter than the first.
Shrinks == [v \in 1..MaxPage |-> IF v = 1 THEN 2 ELSE 1]

May(names, hosts, version, pages, signals, failures, changes) ==
  Start(names, [h \in Host |-> version],
        [hosts |-> hosts, pages |-> pages, signals |-> signals,
         failures |-> failures, changes |-> changes])
MCInit == \/ May({}, {h1}, 1, 3, 0, 0, 1)      \* two versions
          \/ May({}, {h1}, 1, 3, 0, 1, 0)      \* a server or a client fails
          \/ May({}, {h1}, 1, 2, 1, 0, 0)      \* SIGINT
          \/ May({h2}, {h1, h2}, 2, 1, 0, 0, 0)  \* a blocked host
MCSpec == MCInit /\ [][Next]_vars /\ Fairness
=============================================================================
