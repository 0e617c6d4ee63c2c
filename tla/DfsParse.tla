------------------------------ MODULE DfsParse ------------------------------
(***************************************************************************)
(* How the threads of dfs.c take a request apart: with strtok, whose place *)
(* is one pointer for the whole process.  strstr looks for "Filename: "    *)
(* and "Chunk: " in a buffer that the first strtok has cut after its first *)
(* word, and finds neither: five calls in a row go on from that pointer.   *)
(* In Dfs a thread parses in one step; this module is about threads that   *)
(* parse at the same time.                                                 *)
(*                                                                         *)
(* A header is the lines "K1: V1" .. "Kn: Vn".  Place 2i-1 of it is before *)
(* Vi, place 2i after it; at place 2n begin the bytes of the chunk.  Place  *)
(* 0 is a 0 that another thread's call has put in the buffer.              *)
(***************************************************************************)
EXTENDS Naturals, Sequences

CONSTANTS
  Thread,
  Header,      \* of each thread's request, the values: the command, the file
               \* name, the chunk, and for a put its size and the time
  Junk, Null   \* a token that is no value of a header, no token

VARIABLES
  call,        \* which call of strtok each thread is at
  olds,        \* strtok's pointer: in whose buffer it is, and at what place
  found,       \* what a call that has begun found in it
  parsed,      \* command, filename and chunk
  cut,         \* the places that a call has put a 0 before
  up           \* the process runs
vars == <<call, olds, found, parsed, cut, up>>

Calls == <<"first", "command", "key2", "filename", "key3", "chunk">>
Branch == Len(Calls) + 1
Filed == Branch + 1
NoWhere == <<Null, 0>>

Init ==
  /\ call = [t \in Thread |-> 1]
  /\ olds = NoWhere /\ found = [t \in Thread |-> NoWhere]
  /\ parsed = [t \in Thread |-> [command |-> Null, filename |-> Null, chunk |-> Null]]
  /\ cut = {} /\ up = TRUE

At(t, names) == up /\ call[t] < Branch /\ Calls[call[t]] \in names
NextCall(t) == call' = [call EXCEPT ![t] = @ + 1]
Ends(place) == 2 * Len(Header[place[1]])

\* What strtok(NULL, "\r\n") can make of a place: a token, and how far it goes.
LineToken(place) ==
  LET u == place[1]  k == place[2] IN
  IF k = 0 THEN {<<Null, 0>>}
  ELSE IF k >= Ends(place) THEN {<<x, k>> : x \in {Junk, Null}}
  ELSE IF k % 2 = 1 THEN {<<Header[u][(k + 1) \div 2], k + 1>>}
  ELSE {<<Junk, k + 2>>}
\* strtok(NULL, " ") skips a key, or a value and the key after it.
PastSpace(place) ==
  LET k == place[2] IN
  IF k = 0 \/ k >= Ends(place) THEN k
  ELSE IF k % 2 = 0 \/ k + 1 = Ends(place) THEN k + 1 ELSE k + 2

\* A call puts a 0 after its token and the pointer behind that; it stays at
\* a 0 that was there before.
MovesTo(u, k) == /\ olds' = <<u, IF <<u, k>> \in cut /\ k < Ends(<<u, k>>) THEN 0 ELSE k>>
                 /\ cut' = IF k = 0 THEN cut ELSE cut \cup {<<u, k>>}

\* strtok(temp_buf, " "): now every thread's pointer is in the buffer of t.
First(t) ==
  /\ At(t, {"first"}) /\ NextCall(t) /\ MovesTo(t, 1)
  /\ UNCHANGED <<found, parsed, up>>

\* strtok(NULL, ...) reads the pointer, looks for the token, and sets it.
Begin(t) ==
  /\ up /\ call[t] \in 2..Branch - 1 /\ found[t] = NoWhere
  /\ found' = [found EXCEPT ![t] = olds]
  /\ UNCHANGED <<call, olds, parsed, cut, up>>
Value(t) ==
  /\ At(t, {"command", "filename", "chunk"}) /\ found[t] # NoWhere /\ NextCall(t)
  /\ \E x \in LineToken(found[t]) :
       /\ parsed' = [parsed EXCEPT ![t][Calls[call[t]]] = x[1]]
       /\ MovesTo(found[t][1], x[2])
  /\ found' = [found EXCEPT ![t] = NoWhere]
  /\ UNCHANGED up
Skip(t) ==
  /\ At(t, {"key2", "key3"}) /\ found[t] # NoWhere /\ NextCall(t)
  /\ MovesTo(found[t][1], PastSpace(found[t]))
  /\ found' = [found EXCEPT ![t] = NoWhere]
  /\ UNCHANGED <<parsed, up>>

\* The branch for a put: strtok(time, ".") leaves the pointer in a copy of
\* the request, after the time.  A thread with another command, or junk for
\* one, stores nothing.
FilePut(t) ==
  /\ up /\ call[t] = Branch /\ parsed[t].command = "put" /\ Len(Header[t]) = 5
  /\ Null \notin {parsed[t].filename, parsed[t].chunk}
  /\ olds' = <<t, 10>> /\ NextCall(t)
  /\ UNCHANGED <<found, parsed, cut, up>>

\* strcmp or strcat of NULL, and a put that has no size.
Crash(t) ==
  /\ up /\ call[t] = Branch
  /\ \/ parsed[t].command = Null
     \/ /\ parsed[t].command = "put"
        /\ Len(Header[t]) # 5 \/ Null \in {parsed[t].filename, parsed[t].chunk}
  /\ up' = FALSE
  /\ UNCHANGED <<call, olds, found, parsed, cut>>

Next == \E t \in Thread : First(t) \/ Begin(t) \/ Value(t) \/ Skip(t)
                            \/ FilePut(t) \/ Crash(t)
Spec == Init /\ [][Next]_vars

\* "threads have their own stack" (dfs.c:40), for "multiple connections"
\* (399): the chunk of a put is stored under the name and the number that its
\* own header has.  Violated.
FiledAsNamed ==
  \A t \in Thread : call[t] = Filed =>
    parsed[t].filename = Header[t][2] /\ parsed[t].chunk = Header[t][3]
=============================================================================
