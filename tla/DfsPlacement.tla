---------------------------- MODULE DfsPlacement ----------------------------
(***************************************************************************)
(* Where dfc.c puts the chunks of a file.  The client cuts a file into as  *)
(* many chunks as there are servers and sends every server two of them;    *)
(* which two depends on the hash x of the file name.  The program writes   *)
(* this out as a table for four servers, one branch per hash value         *)
(* (src/PA4/client/dfc.c:423-719); Slot is that table.                     *)
(***************************************************************************)
EXTENDS Integers

CONSTANT N              \* num_servers, 4 in the program

ASSUME NAssumption == N \in Nat /\ N >= 2

Server == 1..N
Chunk == 1..N
Hash == 0..(N-1)        \* the values of md5_hash
Which == 1..2           \* the first and the second chunk a server is sent

\* A mutant: the upper end of the ring is forgotten.
WrapLowOnly(i) == IF i < 1 THEN i + N ELSE i
\* Indices of servers and chunks are taken around the ring 1, 2, ..., N.
Wrap(i) == IF i < 1 THEN i + N ELSE IF i > N THEN i - N ELSE i
NextServer(d) == Wrap(d + 1)

\* A mutant: the second chunk is the one opposite to the first.
SlotOpposite(x, d, w) == Wrap(d - x + 2 * w - 2)
\* The chunk server d is sent as its w-th when the hash of the name is x.
Slot(x, d, w) == Wrap(d - x + w - 1)

\* The servers that are sent chunk k.
Holders(x, k) == {d \in Server : \E w \in Which : Slot(x, d, w) = k}

\* A mutant: the remainder is dropped.
ChunkSizeNoRest(size, k) == size \div N
\* chunk_s and p4_size: equal parts, the remainder goes to the last chunk.
ChunkSize(size, k) == IF k < N THEN size \div N ELSE size - (N-1) * (size \div N)

\* The first byte of chunk k: the client reads the chunks one after the other.
ChunkStart(size, k) == (k-1) * (size \div N)
=============================================================================
