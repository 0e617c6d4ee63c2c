----------------------------- MODULE ChunkStore -----------------------------
(***************************************************************************)
(* What the servers of PA4 promise their clients, without threads, mutex,  *)
(* messages or sockets: each is a set of chunk files that are written once,*)
(* and a get of a chunk is told the newest there is.                       *)
(***************************************************************************)
EXTENDS Naturals

CONSTANTS Server, Client, File, Chunk, Stamp, None

VARIABLES
  stored,      \* whose bytes a chunk file has, None: it is not there, or not whole
  reading,     \* the chunk a client has asked a server for, and once it is
               \* chosen the stamp of the file that will be sent
  answer,      \* what a server has told a client that did not take it yet
  died,        \* the server process has ended once
  gone         \* the client process has ended

vars == <<stored, reading, answer, died, gone>>

Path == [file : File, chunk : Chunk, ts : Stamp]
Asked == [file : File, chunk : Chunk, ts : {0}]
Nothing == [file |-> None, chunk |-> 0, ts |-> 0]
NotFound == [path |-> Nothing, ver |-> None]
NoAnswer == [path |-> Nothing, ver |-> "none"]

Init ==
  /\ stored = [s \in Server |-> [p \in Path |-> None]]
  /\ reading = [s \in Server |-> [c \in Client |-> Nothing]]
  /\ answer = [s \in Server |-> [c \in Client |-> NoAnswer]]
  /\ died = [s \in Server |-> FALSE] /\ gone = [c \in Client |-> FALSE]

\* The files of the chunk that r is about.
SameChunk(r) == {p \in Path : p.file = r.file /\ p.chunk = r.chunk}
Answers(s, c, a) == answer' = [answer EXCEPT ![s][c] = a]
Done(s, c) == reading' = [reading EXCEPT ![s][c] = Nothing]

\* A chunk file is whole now, and will not change any more.
Store(s) ==
  /\ UNCHANGED <<reading, answer, died, gone>>
  /\ \E p \in Path, w \in Client :
       stored[s][p] = None /\ stored' = [stored EXCEPT ![s][p] = w]

Ask(s, c) ==
  /\ UNCHANGED <<stored, answer, died, gone>>
  /\ reading[s][c] = Nothing /\ answer[s][c] = NoAnswer /\ ~gone[c]
  /\ \E r \in Asked : reading' = [reading EXCEPT ![s][c] = r]

\* The server settles on a file: none that is stored is newer.  It may be
\* one that is still being written.
Find(s, c) ==
  /\ UNCHANGED <<stored, answer, died, gone>>
  /\ reading[s][c] \in Asked
  /\ \E t \in Stamp :
       /\ \A p \in SameChunk(reading[s][c]) : stored[s][p] # None => t >= p.ts
       /\ reading' = [reading EXCEPT ![s][c].ts = t]

\* The bytes that are sent are those of a file that is whole.
Give(s, c) ==
  LET p == reading[s][c] IN
  /\ UNCHANGED <<stored, died, gone>>
  /\ p \in Path /\ stored[s][p] # None
  /\ Answers(s, c, [path |-> p, ver |-> stored[s][p]]) /\ Done(s, c)

\* "Not Found" is said of a chunk of which nothing is stored.
Deny(s, c) ==
  LET r == reading[s][c] IN
  /\ UNCHANGED <<stored, died, gone>>
  /\ r \in Asked /\ \A p \in SameChunk(r) : stored[s][p] = None
  /\ Answers(s, c, NotFound) /\ Done(s, c)

\* The client takes its answer.
Take(s, c) ==
  /\ UNCHANGED <<stored, reading, died, gone>>
  /\ answer[s][c] # NoAnswer /\ Answers(s, c, NoAnswer)

\* The client ends; then its requests may be forgotten.
Leave(c) ==
  /\ gone' = [gone EXCEPT ![c] = TRUE]
  /\ answer' = [s \in Server |-> [answer[s] EXCEPT ![c] = NoAnswer]]
  /\ UNCHANGED <<stored, reading, died>>
Forget(s, c) ==
  /\ UNCHANGED <<stored, answer, died, gone>>
  /\ gone[c] /\ Done(s, c)

\* The server ends: what is stored stays, whatever it was doing is lost.
Die(s) ==
  /\ died' = [died EXCEPT ![s] = TRUE]
  /\ reading' = [reading EXCEPT ![s] = [c \in Client |-> Nothing]]
  /\ UNCHANGED <<stored, answer, gone>>

\* A server started again on files that its end has torn may send them, and
\* fall out of step with a client over one that is empty.  It still keeps
\* what is stored.
Erratic(s) ==
  /\ died[s]
  /\ \A u \in Server \ {s} : reading'[u] = reading[u] /\ answer'[u] = answer[u]
  /\ UNCHANGED <<stored, died, gone>>

Next ==
  \/ \E s \in Server : Store(s) \/ Die(s) \/ Erratic(s)
  \/ \E s \in Server, c \in Client :
       Ask(s, c) \/ Find(s, c) \/ Give(s, c) \/ Deny(s, c) \/ Take(s, c) \/ Forget(s, c)
  \/ \E c \in Client : Leave(c)

Spec == Init /\ [][Next]_vars
=============================================================================
