--------------------------- MODULE MCDfsPlacement ---------------------------
(***************************************************************************)
(* The table of dfc.c evaluated for every hash value, every set of         *)
(* reachable servers and every file size up to MaxSize.                    *)
(***************************************************************************)
EXTENDS DfsPlacement, FiniteSetsExt

CONSTANT MaxSize        \* bound on the file sizes tried

VARIABLES x, live, size
vars == <<x, live, size>>

Init == x \in Hash /\ live \in SUBSET Server /\ size \in 0..MaxSize
Next == UNCHANGED vars
Spec == Init /\ [][Next]_vars

\* The calls of send_chunk as dfc.c writes them out, branch by branch.
Table == << << <<1,2>>, <<2,3>>, <<3,4>>, <<4,1>> >>,
            << <<4,1>>, <<1,2>>, <<2,3>>, <<3,4>> >>,
            << <<3,4>>, <<4,1>>, <<1,2>>, <<2,3>> >>,
            << <<2,3>>, <<3,4>>, <<4,1>>, <<1,2>> >> >>
\* The formula the other modules use is that table.
SlotIsTable == \A d \in Server, w \in Which : Slot(x, d, w) = Table[x + 1][d][w]

\* A get can reach all chunks exactly when no two neighbours are both gone:
\* the table tolerates any one failure, and two only if they are opposite.
ReachableIffNoGap ==
  (\A k \in Chunk : Holders(x, k) \cap live # {})
    <=> (\A d \in Server : d \in live \/ NextServer(d) \in live)

\* The chunks written one after the other (as get does) are the file: they
\* start where the one before ended and the last one ends at the last byte.
ChunksTileFile ==
  /\ ChunkStart(size, 1) = 0
  /\ \A k \in 1..(N-1) : ChunkStart(size, k) + ChunkSize(size, k) = ChunkStart(size, k+1)
  /\ ChunkStart(size, N) + ChunkSize(size, N) = size
=============================================================================
