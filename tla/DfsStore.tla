------------------------------ MODULE DfsStore ------------------------------
(***************************************************************************)
(* Dfs implements ChunkStore: of the servers' threads, mutex, directory    *)
(* and connections this is all that a client can tell.                     *)
(***************************************************************************)
EXTENDS Dfs

\* A chunk file is stored when it is whole.
StoredOn(s, p) == IF disk[s][p].st = "whole" THEN disk[s][p].ver ELSE None

\* The request among the words that a client has sent.
RequestIn(q) ==
  LET gets == {i \in DOMAIN q : q[i].t = "get"}
      m == q[CHOOSE i \in gets : TRUE] IN
  IF gets = {} THEN NoPath ELSE [file |-> m.file, chunk |-> m.chunk, ts |-> 0]

\* The answer among the words that it has not read.  A size is none yet: the
\* bytes that follow it are.
AnswerIn(q) ==
  LET answers == {i \in DOMAIN q : q[i].t \in {"data", "not found"}}
      m == q[CHOOSE i \in answers : TRUE] IN
  IF answers = {} THEN [path |-> NoPath, ver |-> "none"]
  ELSE IF m.t = "data" THEN [path |-> m.path, ver |-> m.ver]
  ELSE [path |-> NoPath, ver |-> None]

\* A request is on its way, or a thread has found its file.
ReadingAt(s, c) == IF spc[s][c] \in {"get_lock", "get_ready"} THEN cur[s][c]
                   ELSE RequestIn(c2s[c][s])
AnswerOf(s, c) == AnswerIn(s2c[c][s])

Store == INSTANCE ChunkStore WITH
  stored <- [s \in Server |-> [p \in Path |-> StoredOn(s, p)]],
  reading <- [s \in Server |-> [c \in Client |-> ReadingAt(s, c)]],
  answer <- [s \in Server |-> [c \in Client |-> AnswerOf(s, c)]],
  gone <- [c \in Client |-> cpc[c] \in {"exited", "killed"}]

\* However threads and clients interleave, every server is a store of chunk
\* files that are written once; what it gives is whole, and nothing that was
\* stored when the request was looked at is newer; it says "Not Found" only
\* of a chunk it does not have.
IsChunkStore == Store!Spec
=============================================================================
