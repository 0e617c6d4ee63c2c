------------------------------- MODULE MCDfs -------------------------------
(***************************************************************************)
(* Small instances of Dfs for TLC: which runs of the client there are.     *)
(***************************************************************************)
EXTENDS DfsStore, TLC

CONSTANTS a, b, c, f, g     \* model values: clients and files

Put(files) == [cmd |-> "put", files |-> files]
Get(files) == [cmd |-> "get", files |-> files]
Lst == [cmd |-> "list", files |-> <<>>]

\* The hash of each name: neighbours, so that the two files overlap.
MCHashOf == [x \in File |-> IF x = f THEN 0 ELSE 1]
MCRank == [x \in File |-> IF x = f THEN 1 ELSE 2]
NoAlias == {}

\* Two puts of the same file and a get of it; parts of that.
PutPutGet == a :> Put(<<f>>) @@ b :> Put(<<f>>) @@ c :> Get(<<f>>)
PutGet == a :> Put(<<f>>) @@ c :> Get(<<f>>)
\* A put of two files, the first of which is not there, another put and a list.
PutPutList == a :> Put(<<g, f>>) @@ b :> Put(<<f>>) @@ c :> Lst

\* All runs at once, the others after the first, or one after the other.
AllAtOnce == [x \in Client |-> {}]
FirstAlone == [x \in Client |-> IF x = a THEN {} ELSE {a}]
InTurn == [x \in Client |-> CASE x = a -> {}
                               [] x = b -> {a} \cap Client
                               [] OTHER -> Client \ {c}]

\* Files of 4 bytes: a chunk has one.  With NoG the file g does not exist.
Big == [x \in Client |-> [y \in File |-> 4]]
NoG == [x \in Client |-> [y \in File |-> IF y = g THEN -1 ELSE 4]]
=============================================================================
