----------------------------- MODULE MCDfsParse -----------------------------
(***************************************************************************)
(* Two puts of one chunk each that a server receives at the same time.     *)
(***************************************************************************)
EXTENDS DfsParse, TLC

CONSTANTS t1, t2        \* model values: threads

TwoPuts == t1 :> <<"put", "foo1", "1", "4", "0.1">>
           @@ t2 :> <<"put", "foo2", "2", "4", "0.2">>
=============================================================================
