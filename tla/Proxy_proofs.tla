----------------------------- MODULE Proxy_proofs -----------------------------
(***************************************************************************)
(* Safety of Proxy for any number of processes, hosts, versions of pages   *)
(* of any length, and any blocklist, with SIGINT, servers that end in      *)
(* mid-page, clients that leave, and relays of one page that meet.         *)
(***************************************************************************)
EXTENDS Proxy, TLAPS

(* ------------------------------ operators ----------------------------- *)

LEMMA DataIs ==
  ASSUME NEW d \in Data
  PROVE  /\ Len(d) \in Nat /\ DOMAIN d = 1..Len(d)
         /\ \A i \in DOMAIN d : d[i] \in Version \cup {Hole}
         /\ d # Absent
<1>1. /\ Len(d) \in Nat /\ DOMAIN d = 1..Len(d)
      /\ \A i \in DOMAIN d : d[i] \in Version \cup {Hole}
  BY DEF Data
<1>2. ASSUME d = Absent PROVE FALSE
  <2>1. 1 \in DOMAIN d /\ d[1] = NoOne
    BY <1>2 DEF Absent
  <2>2. NoOne \in 0..MaxPage
    BY <1>1, <2>1, ProxyAssumption DEF Version, Hole
  <2> QED BY <2>2, ProxyAssumption
<1> QED BY <1>1, <1>2

LEMMA SizeType ==
  ASSUME NEW v \in Version \cup {NoLength}
  PROVE  SizeOf(v) \in Nat /\ (v # NoLength => SizeOf(v) = PageSize[v])
BY ProxyAssumption DEF SizeOf, Version, NoLength

\* The data w is d after a write of pieces i..j of version v.
Grown(w, d, i, j, v) ==
  /\ w \in Data
  /\ Len(w) = IF j > Len(d) THEN j ELSE Len(d)
  /\ \A k \in 1..Len(w) :
       w[k] = IF k \in i..j THEN v ELSE IF k \in DOMAIN d THEN d[k] ELSE Hole

\* What write(2) makes of a file.
LEMMA WrittenIs ==
  ASSUME NEW d \in Data, NEW i \in Nat \ {0}, NEW j \in Nat, NEW v \in Version \cup {NoLength}
  PROVE  Grown(Written(d, i, j, v), d, i, j, v)
<1> DEFINE n == IF j > Len(d) THEN j ELSE Len(d)
           piece(k) == IF k \in i..j THEN v ELSE IF k \in DOMAIN d THEN d[k] ELSE Hole
<1>1. n \in Nat /\ \A k \in 1..n : piece(k) \in Version \cup {Hole}
  BY DataIs DEF Hole, NoLength
<1>2. Written(d, i, j, v) = [k \in 1..n |-> piece(k)]
  BY DEF Written
<1> HIDE DEF n, piece
<1>3. Written(d, i, j, v) \in Seq(Version \cup {Hole}) /\ Len(Written(d, i, j, v)) = n
  BY <1>1, <1>2
<1>4. \A k \in 1..n : Written(d, i, j, v)[k] = piece(k)
  BY <1>2
<1>5. /\ Written(d, i, j, v) \in Data
      /\ Len(Written(d, i, j, v)) = IF j > Len(d) THEN j ELSE Len(d)
      /\ \A k \in 1..Len(Written(d, i, j, v)) :
           Written(d, i, j, v)[k] = IF k \in i..j THEN v
                                    ELSE IF k \in DOMAIN d THEN d[k] ELSE Hole
  BY <1>3, <1>4 DEF n, piece, Data
<1> DEFINE w == Written(d, i, j, v)
<1>6. /\ w \in Data
      /\ Len(w) = IF j > Len(d) THEN j ELSE Len(d)
      /\ \A k \in 1..Len(w) :
           w[k] = IF k \in i..j THEN v ELSE IF k \in DOMAIN d THEN d[k] ELSE Hole
  BY <1>5
<1> HIDE DEF w
<1>7. Grown(w, d, i, j, v)
  BY <1>6 DEF Grown
<1> QED BY <1>7 DEF w

(* ------------------------- what the proofs rest on -------------------- *)

\* A process that has a request has a host; one that writes or sends has a
\* cache file; and of a page it has what it received, in its buffer or out.
ProcOk(p) ==
  /\ pc[p] \in Busy => host[p] \in Host
  /\ pc[p] \in Writing \cup Sending => file[host[p]] # Absent
  /\ pc[p] \in {"open"} \cup Writing => off[p] <= got[p] /\ got[p] <= SizeOf(ver[p])
  /\ pc[p] \in {"open", "lock"} => off[p] = 0
  /\ pc[p] = "close" => got[p] = SizeOf(ver[p])
TypeInv == TypeOK /\ \A p \in Proc : ProcOk(p)

\* After the handler a page is sent once: the connection is closed with it,
\* and no request is taken any more.
LateOk(p) ==
  /\ late[p] <= 1
  /\ late[p] > 0 => /\ ~check[p]
                    /\ \/ pc[p] \in {"send", "starved"} /\ conn[p] = "close"
                       \/ pc[p] \in {"closed", "gone"}

\* A scan that no other met finds the offset where it has put it; one that
\* goes on has not found its host.
ScanOk(p) ==
  /\ pc[p] = "scan" /\ ~overlapped[p] => top
  /\ pc[p] = "scan_end" => host[p] \notin blocked
  /\ pc[p] \in Relaying /\ host[p] \in blocked => overlapped[p]

\* All the pieces that p has written are in the cache file of h.
Out(p, h, v) == \A i \in 1..off[p] : i \in DOMAIN file[h] /\ file[h][i] = v

\* The relays that write the page of h are of versions that fetched has.  If
\* there is but one, the file has nothing else and is not too long; and it
\* is whole, or some relay, the last to empty it, has lost nothing of what
\* it wrote.
FileOk(h) ==
  /\ \A p \in Writers(h) : ver[p] \in fetched[h]
  /\ \A v \in Version : fetched[h] = {v} =>
     /\ file[h] # Absent /\ Len(file[h]) <= PageSize[v]
     /\ \A i \in DOMAIN file[h] : file[h][i] \in {v, Hole}
     /\ file[h] = Whole(v) \/ \E p \in Writers(h) : Out(p, h, v)

\* While p serves a request no other relay met, no other one writes its page.
AloneOk(p) ==
  pc[p] \in Busy /\ ~disturbed[p] =>
    /\ Writers(host[p]) \subseteq {p}
    /\ pc[p] = "send" => \A v \in Version : fetched[host[p]] = {v} =>
         /\ size[p] = PageSize[v] /\ Len(sent[p]) <= size[p]
         /\ \A i \in 1..Len(sent[p]) : sent[p][i] = v

Inv ==
  /\ TypeInv
  /\ \A p \in Proc : LateOk(p) /\ ScanOk(p) /\ AloneOk(p)
  /\ \A h \in Host : FileOk(h)

(* -------------------------------- types ------------------------------- *)

LEMMA TypeInit == Init => TypeInv
<1> SUFFICES ASSUME Init PROVE TypeInv
  OBVIOUS
<1>1. PICK names \in SUBSET Host, pages \in [Host -> 1..MaxPage], bounds \in Budget :
         Start(names, pages, bounds)
  BY DEF Init
<1>2. <<>> \in Data /\ 1 \in Version /\ 0 \in Nat
  BY ProxyAssumption DEF Data, Version
<1>3. TypeOK
  <2>1. /\ sent \in [Proc -> Data] /\ file \in [Host -> Data \cup {Absent}]
        /\ page \in [Host -> Version]
    BY <1>1, <1>2 DEF Start, Version
  <2>2. /\ blocked \in SUBSET Host /\ budget \in Budget
    BY <1>1 DEF Start
  <2>3. /\ ver \in [Proc -> Version \cup {NoLength}] /\ got \in [Proc -> Nat]
        /\ off \in [Proc -> Nat] /\ size \in [Proc -> Nat] /\ late \in [Proc -> Nat]
    BY <1>1 DEF Start
  <2> QED BY <1>1, <2>1, <2>2, <2>3 DEF Start, TypeOK
<1>4. \A p \in Proc : ProcOk(p)
  BY <1>1 DEF Start, ProcOk, Busy, Relaying, Writing, Sending, Scanning
<1> QED BY <1>3, <1>4 DEF TypeInv

LEMMA SpendsType ==
  ASSUME TypeOK, NEW what \in {"pages", "signals", "failures", "changes"}, Spends(what)
  PROVE  budget' \in Budget
<1>1. budget \in Budget /\ budget[what] > 0 /\ budget' = [budget EXCEPT ![what] = @ - 1]
  BY DEF TypeOK, Spends
<1>2. budget[what] \in Nat /\ budget[what] - 1 \in Nat
  BY <1>1 DEF Budget
<1> QED BY <1>1, <1>2 DEF Budget

\* The locals of the functions that return keep their types.
LEMMA LocalsType ==
  ASSUME TypeOK, NEW p \in Proc
  PROVE  /\ RelayReturns(p) => /\ ver' \in [Proc -> Version \cup {NoLength}]
                               /\ got' \in [Proc -> Nat] /\ off' \in [Proc -> Nat]
         /\ SendReturns(p) => size' \in [Proc -> Nat] /\ sent' \in [Proc -> Data]
         /\ RequestReturns(p) => /\ host' \in [Proc -> Host \cup {NoOne}]
                                 /\ conn' \in [Proc -> {"keep", "close"}]
                                 /\ disturbed' \in [Proc -> BOOLEAN]
<1>1. <<>> \in Data
  BY DEF Data
<1>2. RelayReturns(p) => /\ ver' \in [Proc -> Version \cup {NoLength}]
                         /\ got' \in [Proc -> Nat] /\ off' \in [Proc -> Nat]
  BY DEF TypeOK, RelayReturns
<1>3. SendReturns(p) => size' \in [Proc -> Nat] /\ sent' \in [Proc -> Data]
  <2> HIDE DEF Data
  <2> QED BY <1>1 DEF TypeOK, SendReturns
<1>4. RequestReturns(p) => /\ host' \in [Proc -> Host \cup {NoOne}]
                           /\ conn' \in [Proc -> {"keep", "close"}]
                           /\ disturbed' \in [Proc -> BOOLEAN]
  BY DEF TypeOK, RequestReturns
<1> QED BY <1>2, <1>3, <1>4

States == Busy \cup {"unborn", "recv", "refuse", "closed", "gone"}
LEMMA GotoType ==
  ASSUME TypeOK, NEW p \in Proc, NEW state \in States, Goto(p, state)
  PROVE  pc' \in [Proc -> States]
BY DEF TypeOK, Goto, States

\* The parent, the signals and what happens outside.
LEMMA OutsideType ==
  ASSUME TypeOK, Interrupt \/ Parent \/ \E h \in Host : Expire(h) \/ PageChanges(h)
  PROVE  TypeOK'
<1> USE DEF relaying, sending, cache, locks, list, request, hist
<1>1. CASE Interrupt
  BY <1>1, SpendsType DEF TypeOK, Interrupt
<1>2. CASE Parent
  BY <1>2 DEF TypeOK, Parent, ParentStops, ParentEnds
<1>3. ASSUME NEW h \in Host, Expire(h) PROVE TypeOK'
  BY <1>3 DEF TypeOK, Expire
<1>4. ASSUME NEW h \in Host, PageChanges(h) PROVE TypeOK'
  <2>1. page' \in [Host -> Version]
    BY <1>4, ProxyAssumption DEF TypeOK, PageChanges, Version
  <2> QED BY <1>4, <2>1, SpendsType DEF TypeOK, PageChanges
<1> QED BY <1>1, <1>2, <1>3, <1>4

\* A child begins, is interrupted, takes a request or refuses it.
LEMMA AskType ==
  ASSUME TypeOK, NEW p \in Proc, Accept(p) \/ ChildSigint(p) \/ Ask(p) \/ Refuse(p) \/ RecvEnds(p)
  PROVE  TypeOK'
<1> USE DEF relaying, sending, cache, locks, list, request, hist
<1>1. CASE Accept(p) \/ ChildSigint(p) \/ Refuse(p) \/ RecvEnds(p)
  <2>1. pc' \in [Proc -> States]
    BY <1>1, GotoType DEF Accept, ChildSigint, Refuse, RecvEnds, States, TypeOK, Busy, Sending
  <2> QED BY <1>1, <2>1 DEF Accept, ChildSigint, Refuse, RecvEnds, TypeOK, States
<1>2. ASSUME NEW h \in budget.hosts, NEW connection \in {"keep", "close"},
             Request(p, h, connection)
      PROVE  TypeOK'
  <2>1. pc' \in [Proc -> States]
    BY <1>2, GotoType DEF Request, States, Busy, Sending
  <2>2. h \in Host
    BY DEF TypeOK, Budget
  <2>3. /\ host' \in [Proc -> Host \cup {NoOne}] /\ conn' \in [Proc -> {"keep", "close"}]
        /\ disturbed' \in [Proc -> BOOLEAN] /\ overlapped' \in [Proc -> BOOLEAN]
    BY <1>2, <2>2 DEF Request, TypeOK
  <2> QED BY <1>2, <2>1, <2>3 DEF Request, Takes, TypeOK, States
<1>3. CASE RefusedRequest(p) \/ Malformed(p)
  <2>1. pc' \in [Proc -> States]
    BY <1>3, GotoType DEF RefusedRequest, Malformed, States
  <2> QED BY <1>3, <2>1 DEF RefusedRequest, Malformed, Takes, TypeOK, States
<1> QED BY <1>1, <1>2, <1>3 DEF Ask

\* The blocklist is read.
LEMMA ScanType ==
  ASSUME TypeOK, NEW p \in Proc, ScanStart(p) \/ ScanKept(p) \/ Scan(p) \/ ScanEnd(p)
  PROVE  TypeOK'
<1> USE DEF States
<1>1. ScanStep(p) /\ overlapped' \in [Proc -> BOOLEAN]
  <2>1. ScanStep(p)
    BY DEF ScanStart, ScanKept, Scan, ScanEnd
  <2> QED BY <2>1, Zenon DEF ScanStep, Meets, TypeOK
<1>2. \/ \E state \in {"scan", "scan_end", "fetch"} : GoesOn(p, state)
      \/ Answered(p)
  BY DEF ScanStart, ScanKept, Scan, ScanEnd
<1>3. /\ pc' \in [Proc -> States] /\ host' \in [Proc -> Host \cup {NoOne}]
      /\ conn' \in [Proc -> {"keep", "close"}] /\ disturbed' \in [Proc -> BOOLEAN]
  <2>1. CASE Answered(p)
    BY <2>1, LocalsType, GotoType DEF Answered
  <2>2. ASSUME NEW state \in {"scan", "scan_end", "fetch"}, GoesOn(p, state)
        PROVE  /\ pc' \in [Proc -> States] /\ UNCHANGED <<host, conn, disturbed>>
    BY <2>2, GotoType DEF GoesOn, Busy, Scanning, Relaying
  <2> QED BY <1>2, <2>1, <2>2 DEF TypeOK
<1>4. top' \in BOOLEAN /\ kept' \in [Proc -> BOOLEAN]
  BY DEF ScanStart, ScanKept, Scan, ScanEnd, TypeOK, list
<1>5. blocked' = blocked
  BY <1>1 DEF ScanStep
<1> QED BY <1>1, <1>3, <1>4, <1>5 DEF ScanStep, TypeOK, relaying, sending, cache, locks

\* The server is found and answers, or not.
LEMMA FetchType ==
  ASSUME TypeInv, NEW p \in Proc,
         NoScan(p) \/ Unresolved(p) \/ ConnectFails(p) \/ FetchOther(p) \/ Fetch(p)
  PROVE  TypeOK'
<1>0. TypeOK /\ ProcOk(p)
  BY DEF TypeInv
<1> USE DEF States
<1>1. CASE Unresolved(p) \/ ConnectFails(p) \/ FetchOther(p)
  <2>1. pc' \in [Proc -> States] /\ RequestReturns(p)
    BY <1>0, <1>1, GotoType DEF Unresolved, ConnectFails, FetchOther
  <2>2. /\ host' \in [Proc -> Host \cup {NoOne}] /\ conn' \in [Proc -> {"keep", "close"}]
        /\ disturbed' \in [Proc -> BOOLEAN]
    BY <1>0, <2>1, LocalsType
  <2>3. /\ UNCHANGED <<ppc, sigint, relaying, sending, cache, locks, list, page, budget, fetched,
                       overlapped, late, check>>
    BY <1>1 DEF Unresolved, ConnectFails, FetchOther, Fetches, RequestReturns
  <2> QED BY <1>0, <2>1, <2>2, <2>3 DEF TypeOK, relaying, sending, cache, locks, list
<1>2. CASE Fetch(p)
  <2>1. PICK v \in {page[host[p]], NoLength} : \E first \in 0..SizeOf(v) :
          /\ ver' = [ver EXCEPT ![p] = v] /\ got' = [got EXCEPT ![p] = first]
          /\ off' = [off EXCEPT ![p] = 0]
    BY <1>2 DEF Fetch
  <2>2. pc' \in [Proc -> States] /\ Fetches(p) /\ UNCHANGED <<request, disturbed>>
    BY <1>0, <1>2, GotoType DEF Fetch, Busy, Relaying
  <2>3. off' \in [Proc -> Nat] /\ got' \in [Proc -> Nat]
    BY <1>0, <2>1 DEF TypeOK
  <2>4. v \in Version \cup {NoLength}
    BY <1>0, <2>2 DEF Fetches, At, ProcOk, Busy, Relaying, TypeOK
  <2>5. ver' \in [Proc -> Version \cup {NoLength}]
    BY <1>0, <2>1, <2>4 DEF TypeOK
  <2>6. budget' \in Budget
    BY <1>0, <1>2, SpendsType DEF Fetch
  <2> QED BY <1>0, <2>2, <2>3, <2>5, <2>6 DEF TypeOK, Fetches, request, sending, cache, locks, list
<1>3. CASE NoScan(p)
  <2>1. pc' \in [Proc -> States]
    BY <1>0, <1>3, GotoType DEF NoScan, Busy, Relaying
  <2> QED BY <1>0, <1>3, <2>1 DEF NoScan, TypeOK, request, relaying, sending, cache, locks, list, hist
<1> QED BY <1>1, <1>2, <1>3

\* The cache file is written.
LEMMA PutOutType ==
  ASSUME TypeInv, NEW p \in Proc, pc[p] \in {"fill", "close"}, PutOut(p)
  PROVE  /\ file' \in [Host -> Data \cup {Absent}] /\ fresh' \in [Host -> BOOLEAN]
         /\ file' = [file EXCEPT ![host[p]] =
                       Written(file[host[p]], off[p] + 1, got[p], ver[p])]
         /\ file[host[p]] \in Data /\ file'[host[p]] \in Data /\ host[p] \in Host
<1>1. TypeOK /\ ProcOk(p)
  BY DEF TypeInv
<1>2. host[p] \in Host /\ file[host[p]] \in Data
  BY <1>1 DEF ProcOk, TypeOK, Busy, Relaying, Writing
<1>3. off[p] + 1 \in Nat \ {0} /\ got[p] \in Nat /\ ver[p] \in Version \cup {NoLength}
  BY <1>1 DEF TypeOK
<1>4. Written(file[host[p]], off[p] + 1, got[p], ver[p]) \in Data
  BY <1>2, <1>3, WrittenIs DEF Grown
<1>5. file' = [file EXCEPT ![host[p]] = Written(file[host[p]], off[p] + 1, got[p], ver[p])]
      /\ fresh' = [fresh EXCEPT ![host[p]] = TRUE]
  BY DEF PutOut
<1> HIDE DEF Data
<1> QED BY <1>1, <1>2, <1>4, <1>5 DEF TypeOK

LEMMA EndsType ==
  ASSUME TypeOK, NEW p \in Proc, Ends(p)
  PROVE  /\ pc' \in [Proc -> States] /\ host' \in [Proc -> Host \cup {NoOne}]
         /\ conn' \in [Proc -> {"keep", "close"}] /\ disturbed' \in [Proc -> BOOLEAN]
         /\ ver' \in [Proc -> Version \cup {NoLength}]
         /\ got' \in [Proc -> Nat] /\ off' \in [Proc -> Nat]
         /\ size' \in [Proc -> Nat] /\ sent' \in [Proc -> Data]
         /\ writer' \in [Host -> Proc \cup {NoOne}] /\ readers' \in [Host -> SUBSET Proc]
<1>1. Goto(p, "gone") /\ RelayReturns(p) /\ SendReturns(p) /\ RequestReturns(p)
  BY DEF Ends
<1>2. pc' \in [Proc -> States]
  BY <1>1, GotoType DEF States
<1>3. writer' \in [Host -> Proc \cup {NoOne}] /\ readers' \in [Host -> SUBSET Proc]
  BY DEF Ends, TypeOK
<1> QED BY <1>1, <1>2, <1>3, LocalsType

LEMMA RelayType ==
  ASSUME TypeInv, NEW p \in Proc,
         Truncate(p) \/ WriteLock(p) \/ Fill(p) \/ ServerEnds(p) \/ Flush(p) \/ WriteUnlock(p)
         \/ Close(p)
  PROVE  TypeOK'
<1>0. TypeOK /\ ProcOk(p)
  BY DEF TypeInv
<1>1. pc[p] \in Relaying /\ host[p] \in Host
  BY <1>0 DEF Truncate, WriteLock, Fill, ServerEnds, Flush, WriteUnlock, Close, At, ProcOk, Busy,
              Relaying, Writing
<1>2. WriteStep(p)
  BY DEF Truncate, WriteLock, Fill, ServerEnds, Flush, WriteUnlock, Close
<1> USE DEF WriteStep, relaying, sending, cache, locks, list
<1>3. CASE Truncate(p)
  <2>1. pc' \in [Proc -> States]
    BY <1>0, <1>3, GotoType DEF Truncate, States, Busy, Relaying, Writing
  <2>2. file' \in [Host -> Data \cup {Absent}] /\ fresh' \in [Host -> BOOLEAN]
    <3>1. <<>> \in Data
      BY DEF Data
    <3> HIDE DEF Data
    <3> QED BY <1>0, <1>1, <1>3, <3>1 DEF Truncate, TypeOK
  <2>3. fetched' \in [Host -> SUBSET (Version \cup {NoLength, Torn})]
    BY <1>0, <1>1, <1>3 DEF Truncate, TypeOK
  <2>4. disturbed' \in [Proc -> BOOLEAN]
    BY <1>0, <1>3 DEF Truncate, TypeOK
  <2> QED BY <1>0, <1>2, <1>3, <2>1, <2>2, <2>3, <2>4 DEF Truncate, TypeOK, States
<1>4. CASE WriteLock(p) \/ WriteUnlock(p)
  <2>1. pc' \in [Proc -> States]
    BY <1>0, <1>4, GotoType DEF WriteLock, WriteUnlock, States, Busy, Relaying, Writing
  <2>2. writer' \in [Host -> Proc \cup {NoOne}]
    BY <1>0, <1>1, <1>4 DEF WriteLock, WriteUnlock, TypeOK
  <2> QED BY <1>0, <1>2, <1>4, <2>1, <2>2 DEF WriteLock, WriteUnlock, TypeOK, States
<1>5. CASE Fill(p)
  BY <1>0, <1>2, <1>5 DEF Fill, TypeOK
<1>6. CASE ServerEnds(p)
  <2>1. budget' \in Budget
    BY <1>0, <1>6, SpendsType DEF ServerEnds
  <2>2. CASE Ends(p)
    <3>1. fetched' \in [Host -> SUBSET (Version \cup {NoLength, Torn})]
      BY <1>0, <1>1, <1>6 DEF ServerEnds, TypeOK
    <3>2. UNCHANGED cache
      BY <1>6 DEF ServerEnds
    <3>3. /\ pc' \in [Proc -> States] /\ host' \in [Proc -> Host \cup {NoOne}]
          /\ conn' \in [Proc -> {"keep", "close"}] /\ disturbed' \in [Proc -> BOOLEAN]
          /\ ver' \in [Proc -> Version \cup {NoLength}]
          /\ got' \in [Proc -> Nat] /\ off' \in [Proc -> Nat]
          /\ size' \in [Proc -> Nat] /\ sent' \in [Proc -> Data]
          /\ writer' \in [Host -> Proc \cup {NoOne}] /\ readers' \in [Host -> SUBSET Proc]
      BY <1>0, <2>2, EndsType
    <3> QED BY <1>0, <1>2, <2>1, <3>1, <3>2, <3>3 DEF TypeOK, States
  <2>3. CASE ~Ends(p)
    <3>1. pc' \in [Proc -> States]
      BY <1>0, <1>6, <2>3, GotoType DEF ServerEnds, States, Busy, Relaying, Writing
    <3> QED BY <1>0, <1>2, <1>6, <2>1, <2>3, <3>1 DEF ServerEnds, TypeOK, States
  <2> QED BY <2>2, <2>3
<1>7. CASE Flush(p)
  <2>1. file' \in [Host -> Data \cup {Absent}] /\ fresh' \in [Host -> BOOLEAN]
    BY <1>7, PutOutType DEF Flush
  <2> QED BY <1>0, <1>2, <1>7, <2>1 DEF Flush, TypeOK
<1>8. CASE Close(p)
  <2>1. file' \in [Host -> Data \cup {Absent}] /\ fresh' \in [Host -> BOOLEAN]
    BY <1>0, <1>8, PutOutType DEF Close, At, TypeOK
  <2>2. pc' \in [Proc -> States]
    BY <1>0, <1>8, GotoType DEF Close, States, Busy, Sending
  <2>3. /\ ver' \in [Proc -> Version \cup {NoLength}] /\ got' \in [Proc -> Nat]
        /\ off' \in [Proc -> Nat]
    BY <1>0, <1>8, LocalsType DEF Close
  <2> QED BY <1>0, <1>2, <1>8, <2>1, <2>2, <2>3 DEF Close, TypeOK, States
<1> QED BY <1>3, <1>4, <1>5, <1>6, <1>7, <1>8

\* The page is sent from the cache.
LEMMA SendType ==
  ASSUME TypeInv, NEW p \in Proc,
         ReadLock(p) \/ SendPiece(p) \/ Starve(p) \/ Sent(p) \/ ClientLeaves(p)
  PROVE  TypeOK'
<1>0. TypeOK /\ ProcOk(p)
  BY DEF TypeInv
<1>1. /\ pc[p] \in Sending /\ host[p] \in Host /\ file[host[p]] \in Data
      /\ SendStep(p)
  BY <1>0 DEF ReadLock, SendPiece, Starve, Sent, ClientLeaves, At, ProcOk, Busy, Sending, TypeOK
<1> USE DEF SendStep, relaying, sending, cache, locks, list
<1>2. CASE ReadLock(p)
  <2>1. pc' \in [Proc -> States]
    BY <1>0, <1>2, GotoType DEF ReadLock, States, Busy, Sending
  <2>2. size' \in [Proc -> Nat] /\ sent' \in [Proc -> Data] /\ late' \in [Proc -> Nat]
    <3>1. <<>> \in Data /\ Len(file[host[p]]) \in Nat
      BY <1>1, DataIs DEF Data
    <3> HIDE DEF Data
    <3> QED BY <1>0, <1>2, <3>1 DEF ReadLock, TypeOK
  <2>3. readers' \in [Host -> SUBSET Proc] /\ conn' \in [Proc -> {"keep", "close"}]
    BY <1>0, <1>1, <1>2 DEF ReadLock, TypeOK
  <2> QED BY <1>0, <1>1, <1>2, <2>1, <2>2, <2>3 DEF ReadLock, TypeOK, States
<1>3. CASE SendPiece(p)
  <2> DEFINE i == Len(sent[p]) + 1
  <2>1. i \in DOMAIN file[host[p]] /\ sent' = [sent EXCEPT ![p] = Append(sent[p], file[host[p]][i])]
    BY <1>3 DEF SendPiece
  <2>2. file[host[p]][i] \in Version \cup {Hole}
    BY <1>1, <2>1, DataIs
  <2> HIDE DEF i
  <2>3. Append(sent[p], file[host[p]][i]) \in Data
    <3>1. sent[p] \in Data
      BY <1>0 DEF TypeOK
    <3> QED BY <2>2, <3>1 DEF Data
  <2>4. sent' \in [Proc -> Data]
    <3> HIDE DEF Data
    <3> QED BY <1>0, <2>1, <2>3 DEF TypeOK
  <2> QED BY <1>0, <1>1, <1>3, <2>4 DEF SendPiece, TypeOK
<1>4. CASE Starve(p)
  <2>1. pc' \in [Proc -> States]
    BY <1>0, <1>4, GotoType DEF Starve, States, Busy, Sending
  <2> QED BY <1>0, <1>1, <1>4, <2>1 DEF Starve, TypeOK, States
<1>5. CASE Sent(p)
  <2>1. pc' \in [Proc -> States]
    BY <1>0, <1>5, GotoType DEF Sent, Answered, States
  <2>2. /\ size' \in [Proc -> Nat] /\ sent' \in [Proc -> Data]
        /\ host' \in [Proc -> Host \cup {NoOne}] /\ conn' \in [Proc -> {"keep", "close"}]
        /\ disturbed' \in [Proc -> BOOLEAN]
    BY <1>0, <1>5, LocalsType DEF Sent, Answered
  <2>3. readers' \in [Host -> SUBSET Proc]
    BY <1>0, <1>1, <1>5 DEF Sent, TypeOK
  <2> QED BY <1>0, <1>1, <1>5, <2>1, <2>2, <2>3 DEF Sent, TypeOK, States
<1>6. CASE ClientLeaves(p)
  <2>1. Ends(p) /\ budget' \in Budget /\ UNCHANGED late
    BY <1>0, <1>6, SpendsType DEF ClientLeaves
  <2>2. /\ pc' \in [Proc -> States] /\ host' \in [Proc -> Host \cup {NoOne}]
        /\ conn' \in [Proc -> {"keep", "close"}] /\ disturbed' \in [Proc -> BOOLEAN]
        /\ ver' \in [Proc -> Version \cup {NoLength}]
        /\ got' \in [Proc -> Nat] /\ off' \in [Proc -> Nat]
        /\ size' \in [Proc -> Nat] /\ sent' \in [Proc -> Data]
        /\ writer' \in [Host -> Proc \cup {NoOne}] /\ readers' \in [Host -> SUBSET Proc]
    BY <1>0, <2>1, EndsType
  <2> QED BY <1>0, <1>1, <2>1, <2>2 DEF TypeOK, States
<1> QED BY <1>2, <1>3, <1>4, <1>5, <1>6

LEMMA TypeOkStep == TypeInv /\ [Next]_vars => TypeOK'
<1> SUFFICES ASSUME TypeInv, [Next]_vars PROVE TypeOK'
  OBVIOUS
<1>0. TypeOK
  BY DEF TypeInv
<1>1. CASE UNCHANGED vars
  BY <1>0, <1>1 DEF TypeOK, vars, request, relaying, sending, cache, locks, list, hist
<1>2. CASE Interrupt \/ Parent \/ \E h \in Host : Expire(h) \/ PageChanges(h)
  BY <1>0, <1>2, OutsideType
<1>3. ASSUME NEW p \in Proc,
             \/ Accept(p) \/ ChildSigint(p) \/ Ask(p) \/ Step(p)
             \/ Flush(p) \/ ServerEnds(p) \/ ClientLeaves(p)
      PROVE  TypeOK'
  BY <1>0, <1>3, AskType, ScanType, FetchType, RelayType, SendType DEF Step
<1> QED BY <1>1, <1>2, <1>3 DEF Next

(* ------------------------ what a process has read --------------------- *)

\* What a child does.
Acts(p) == \/ Accept(p) \/ ChildSigint(p) \/ Ask(p) \/ Step(p)
           \/ Flush(p) \/ ServerEnds(p) \/ ClientLeaves(p)

\* The state of a process that only its own steps change.
Same(q) == /\ pc'[q] = pc[q] /\ host'[q] = host[q] /\ conn'[q] = conn[q] /\ check'[q] = check[q]
           /\ ver'[q] = ver[q] /\ got'[q] = got[q] /\ off'[q] = off[q]
           /\ size'[q] = size[q] /\ sent'[q] = sent[q] /\ late'[q] = late[q]

\* Processes meet in the cache, the locks and the blocklist, and nowhere else.
LEMMA ActsAlone ==
  ASSUME TypeOK, NEW p \in Proc, NEW q \in Proc, p # q, Acts(p)
  PROVE  Same(q)
<1> USE DEF TypeOK, Same, Goto, request, relaying, sending, cache, locks, list, hist
<1>1. CASE Accept(p) \/ ChildSigint(p) \/ RecvEnds(p) \/ Refuse(p) \/ RefusedRequest(p) \/ Malformed(p)
  BY <1>1 DEF Accept, ChildSigint, RecvEnds, Refuse, RefusedRequest, Malformed, Takes
<1>2. CASE \E h \in budget.hosts, connection \in {"keep", "close"} : Request(p, h, connection)
  BY <1>2 DEF Request, Takes
<1>3. CASE ScanStart(p) \/ ScanKept(p) \/ Scan(p) \/ ScanEnd(p)
  BY <1>3 DEF ScanStart, ScanKept, Scan, ScanEnd, ScanStep, GoesOn, Answered, RequestReturns
<1>4. CASE NoScan(p) \/ Unresolved(p) \/ ConnectFails(p) \/ FetchOther(p) \/ Fetch(p)
  BY <1>4 DEF NoScan, Unresolved, ConnectFails, FetchOther, Fetch, Fetches, RequestReturns
<1>5. CASE Truncate(p) \/ WriteLock(p) \/ Fill(p) \/ Flush(p) \/ WriteUnlock(p) \/ Close(p)
  BY <1>5 DEF Truncate, WriteLock, Fill, Flush, WriteUnlock, Close, WriteStep, RelayReturns
<1>6. CASE ServerEnds(p) \/ ClientLeaves(p)
  BY <1>6 DEF ServerEnds, ClientLeaves, Ends, WriteStep, SendStep, RelayReturns, SendReturns,
     RequestReturns
<1>7. CASE ReadLock(p) \/ SendPiece(p) \/ Starve(p) \/ Sent(p)
  BY <1>7 DEF ReadLock, SendPiece, Starve, Sent, SendStep, SendReturns, Answered, RequestReturns
<1> QED BY <1>1, <1>2, <1>3, <1>4, <1>5, <1>6, <1>7 DEF Acts, Ask, Step

\* Of all that a process does a few steps touch the cache.
LEMMA FewTouchFiles ==
  ASSUME NEW p \in Proc, Acts(p), ~(Truncate(p) \/ Flush(p) \/ Close(p) \/ ServerEnds(p))
  PROVE  UNCHANGED <<file, fetched>>
<1> USE DEF cache, hist
<1>1. CASE Accept(p) \/ ChildSigint(p) \/ RecvEnds(p) \/ Refuse(p) \/ RefusedRequest(p) \/ Malformed(p)
  BY <1>1 DEF Accept, ChildSigint, RecvEnds, Refuse, RefusedRequest, Malformed, Takes
<1>2. CASE \E h \in budget.hosts, connection \in {"keep", "close"} : Request(p, h, connection)
  BY <1>2 DEF Request, Takes
<1>3. CASE ScanStart(p) \/ ScanKept(p) \/ Scan(p) \/ ScanEnd(p)
  BY <1>3 DEF ScanStart, ScanKept, Scan, ScanEnd, ScanStep
<1>4. CASE NoScan(p) \/ Unresolved(p) \/ ConnectFails(p) \/ FetchOther(p) \/ Fetch(p)
  BY <1>4 DEF NoScan, Unresolved, ConnectFails, FetchOther, Fetch, Fetches
<1>5. CASE WriteLock(p) \/ Fill(p) \/ WriteUnlock(p)
  BY <1>5 DEF WriteLock, Fill, WriteUnlock
<1>6. CASE ClientLeaves(p) \/ ReadLock(p) \/ SendPiece(p) \/ Starve(p) \/ Sent(p)
  BY <1>6 DEF ClientLeaves, ReadLock, SendPiece, Starve, Sent, SendStep
<1> QED BY <1>1, <1>2, <1>3, <1>4, <1>5, <1>6 DEF Acts, Ask, Step

\* A cached file never goes.
LEMMA FilesRemain ==
  ASSUME TypeInv, [Next]_vars, NEW h \in Host, file[h] # Absent
  PROVE  file'[h] # Absent
<1>0. TypeOK /\ file[h] \in Data
  BY DEF TypeInv, TypeOK
<1>1. ASSUME NEW p \in Proc, Truncate(p) PROVE file'[h] # Absent
  <2>1. <<>> \in Data
    BY DEF Data
  <2>2. file'[h] = file[h] \/ file'[h] = <<>>
    BY <1>0, <1>1 DEF Truncate, TypeOK
  <2> QED BY <2>1, <2>2, DataIs
<1>2. ASSUME NEW p \in Proc, pc[p] \in {"fill", "close"}, PutOut(p) PROVE file'[h] # Absent
  <2>1. /\ file' = [file EXCEPT ![host[p]] = Written(file[host[p]], off[p] + 1, got[p], ver[p])]
        /\ file'[host[p]] \in Data /\ host[p] \in Host
    BY <1>2, PutOutType
  <2>2. file'[h] = file[h] \/ file'[h] \in Data
    BY <1>0, <2>1 DEF TypeOK
  <2> QED BY <2>2, DataIs
<1>3. ASSUME NEW p \in Proc, Acts(p) PROVE file'[h] # Absent
  BY <1>1, <1>2, <1>3, FewTouchFiles DEF Flush, Close, ServerEnds, At, cache
<1>4. CASE UNCHANGED vars \/ Interrupt \/ Parent \/ \E x \in Host : Expire(x) \/ PageChanges(x)
  BY <1>4 DEF vars, Interrupt, Parent, ParentStops, ParentEnds, Expire, PageChanges, cache
<1> QED BY <1>3, <1>4 DEF Next, Acts

LEMMA SameProcOk ==
  ASSUME TypeInv, [Next]_vars, NEW q \in Proc, Same(q)
  PROVE  ProcOk(q)'
<1>1. ProcOk(q) /\ TypeOK
  BY DEF TypeInv
<1>2. pc[q] \in Writing \cup Sending => file'[host[q]] # Absent
  BY <1>1, FilesRemain DEF ProcOk, Busy, Relaying
<1> QED BY <1>1, <1>2 DEF Same, ProcOk, SizeOf

\* A process that is not busy has nothing to be said of.
LEMMA IdleProcOk ==
  ASSUME NEW p \in Proc, pc'[p] \notin Busy
  PROVE  ProcOk(p)'
BY DEF ProcOk, Busy, Relaying, Writing, Sending

LEMMA ActsProcOk ==
  ASSUME TypeInv, [Next]_vars, NEW p \in Proc, Acts(p)
  PROVE  ProcOk(p)'
<1>0. ProcOk(p) /\ TypeOK /\ TypeOK'
  BY TypeOkStep DEF TypeInv
<1> DEFINE Idle == {"unborn", "recv", "refuse", "closed", "gone"}
<1>a. ASSUME pc'[p] \in Idle PROVE ProcOk(p)'
  BY <1>a, IdleProcOk DEF Busy, Scanning, Relaying, Writing, Sending
<1>1. CASE Accept(p) \/ RecvEnds(p) \/ Refuse(p) \/ RefusedRequest(p) \/ Malformed(p) \/ Unresolved(p)
           \/ ConnectFails(p) \/ FetchOther(p) \/ Sent(p) \/ ClientLeaves(p)
  <2>1. pc'[p] \in Idle
    BY <1>0, <1>1 DEF Accept, RecvEnds, Refuse, RefusedRequest, Malformed, Unresolved, ConnectFails, FetchOther,
       Sent, Answered, ClientLeaves, Ends, Goto, TypeOK
  <2> QED BY <2>1, <1>a
<1>2. CASE ChildSigint(p)
  <2>1. /\ \/ pc'[p] = "gone" \/ pc'[p] = pc[p]
           \/ pc[p] = "send" /\ pc'[p] = "starved"
        /\ UNCHANGED <<host, file, ver, got, off>>
    BY <1>0, <1>2 DEF ChildSigint, At, Goto, TypeOK, cache, relaying
  <2>2. CASE pc'[p] # "gone"
    BY <1>0, <2>1, <2>2 DEF ProcOk, SizeOf, Busy, Sending, Writing
  <2> QED BY <1>a, <2>2
<1>3. ASSUME NEW h \in budget.hosts, NEW connection \in {"keep", "close"},
             Request(p, h, connection)
      PROVE  ProcOk(p)'
  <2>1. h \in Host
    BY <1>0 DEF TypeOK, Budget
  <2>2. /\ host'[p] = h /\ UNCHANGED file
        /\ pc'[p] = IF file[h] # Absent /\ fresh[h] THEN "read" ELSE "resolve"
    BY <1>0, <1>3 DEF Request, Takes, Goto, TypeOK, cache
  <2> QED BY <2>1, <2>2 DEF ProcOk, Busy, Scanning, Relaying, Writing, Sending
<1>4. CASE NoScan(p) \/ ScanStart(p) \/ ScanKept(p) \/ Scan(p) \/ ScanEnd(p)
  <2>1. pc'[p] \in Idle \/ (pc'[p] \in {"scan", "scan_end", "fetch"} /\ host'[p] = host[p])
    BY <1>0, <1>4 DEF NoScan, ScanStart, ScanKept, Scan, ScanEnd, GoesOn, Answered, Goto, TypeOK,
       request
  <2>2. pc[p] \in Busy
    BY <1>4 DEF NoScan, ScanStart, ScanKept, Scan, ScanEnd, At, Busy, Scanning
  <2> QED BY <1>0, <1>a, <2>1, <2>2 DEF ProcOk, Busy, Scanning, Relaying, Writing, Sending
<1>5. CASE Fetch(p)
  <2>1. PICK v \in {page[host[p]], NoLength} : \E first \in 0..SizeOf(v) :
          /\ ver' = [ver EXCEPT ![p] = v] /\ got' = [got EXCEPT ![p] = first]
          /\ off' = [off EXCEPT ![p] = 0]
    BY <1>5 DEF Fetch
  <2>2. PICK first \in 0..SizeOf(v) :
          /\ ver' = [ver EXCEPT ![p] = v] /\ got' = [got EXCEPT ![p] = first]
          /\ off' = [off EXCEPT ![p] = 0]
    BY <2>1
  <2>3. pc[p] = "fetch" /\ pc'[p] = "open" /\ host'[p] = host[p]
    BY <1>0, <1>5 DEF Fetch, Fetches, At, Goto, TypeOK, request
  <2>4. ver'[p] = v /\ got'[p] = first /\ off'[p] = 0 /\ host[p] \in Host
    BY <1>0, <2>2, <2>3 DEF TypeOK, ProcOk, Busy, Relaying
  <2>5. SizeOf(ver'[p]) \in Nat /\ SizeOf(ver[p])' = SizeOf(ver'[p])
    BY <1>0, SizeType DEF TypeOK, SizeOf
  <2>6. first \in 0..SizeOf(ver'[p])
    BY <2>4
  <2>7. off'[p] <= got'[p] /\ got'[p] <= SizeOf(ver[p])'
    BY <2>4, <2>5, <2>6
  <2> QED BY <2>3, <2>4, <2>7 DEF ProcOk, Busy, Relaying, Writing, Sending
<1>6. CASE Truncate(p)
  <2>1. pc[p] = "open" /\ pc'[p] = "lock" /\ UNCHANGED <<host, ver, got, off>>
    BY <1>0, <1>6 DEF Truncate, At, Goto, TypeOK, relaying
  <2>2. host[p] \in Host /\ off[p] = 0
    BY <1>0, <2>1 DEF ProcOk, Busy, Relaying
  <2>3. file'[host[p]] # Absent
    <3>1. <<>> \in Data /\ file'[host[p]] = <<>>
      BY <1>0, <1>6, <2>2 DEF Truncate, TypeOK, Data
    <3> QED BY <3>1, DataIs
  <2> QED BY <1>0, <2>1, <2>2, <2>3 DEF ProcOk, Busy, Relaying, Writing, Sending, SizeOf
<1>7. CASE WriteLock(p) \/ Fill(p) \/ WriteUnlock(p) \/ Flush(p) \/ ServerEnds(p)
  <2>1. ServerEnds(p) => pc'[p] = "gone" \/ (pc[p] = "fill" /\ pc'[p] = "spin" /\ UNCHANGED <<host, ver, got, off>>)
    BY <1>0 DEF ServerEnds, Ends, At, Goto, TypeOK, relaying
  <2>2. CASE pc'[p] = "gone"
    BY <1>a, <2>2
  <2>3. CASE pc'[p] # "gone"
    <3>1. /\ pc[p] \in Writing /\ pc'[p] \in Writing /\ UNCHANGED <<host, ver>>
          /\ pc'[p] # "lock"
      BY <1>0, <1>7, <2>1, <2>3 DEF WriteLock, Fill, WriteUnlock, Flush, At, Goto, TypeOK, relaying,
         Writing, ServerEnds
    <3>2. host[p] \in Host /\ file[host[p]] # Absent
      BY <1>0, <3>1 DEF ProcOk, Busy, Relaying
    <3>3. file'[host[p]] # Absent
      BY <3>2, FilesRemain
    <3>4. off[p] <= got[p] /\ got[p] <= SizeOf(ver[p])
      BY <1>0, <3>1 DEF ProcOk
    <3>5. SizeOf(ver[p]) \in Nat /\ off[p] \in Nat /\ got[p] \in Nat /\ SizeOf(ver[p])' = SizeOf(ver[p])
      BY <1>0, <3>1, SizeType DEF TypeOK, SizeOf
    <3>6. off'[p] <= got'[p] /\ got'[p] <= SizeOf(ver[p])
      BY <1>0, <1>7, <2>1, <2>3, <3>4, <3>5 DEF WriteLock, Fill, WriteUnlock, Flush, TypeOK, relaying
    <3>7. pc'[p] = "close" => got'[p] = SizeOf(ver[p])
      BY <1>0, <1>7, <2>1, <2>3, <3>5 DEF WriteLock, Fill, WriteUnlock, Flush, At, Goto, TypeOK, relaying,
         ProcOk
    <3> QED BY <3>1, <3>2, <3>3, <3>5, <3>6, <3>7 DEF ProcOk, Writing, Busy, Relaying, Sending
  <2> QED BY <2>2, <2>3
<1>8. CASE Close(p) \/ ReadLock(p) \/ SendPiece(p) \/ Starve(p)
  <2>1. /\ pc[p] \in {"close"} \cup Sending /\ pc'[p] \in Sending /\ host'[p] = host[p]
    BY <1>0, <1>8 DEF Close, ReadLock, SendPiece, Starve, At, Goto, TypeOK, Sending
  <2>2. host[p] \in Host /\ file[host[p]] # Absent
    BY <1>0, <2>1 DEF ProcOk, Busy, Relaying, Writing
  <2>3. file'[host[p]] # Absent
    BY <2>2, FilesRemain
  <2> QED BY <2>1, <2>2, <2>3 DEF ProcOk, Busy, Relaying, Writing, Sending
<1> QED BY <1>1, <1>2, <1>3, <1>4, <1>5, <1>6, <1>7, <1>8 DEF Acts, Ask, Step

LEMMA TypeStep == TypeInv /\ [Next]_vars => TypeInv'
<1> SUFFICES ASSUME TypeInv, [Next]_vars PROVE TypeInv'
  OBVIOUS
<1>1. TypeOK' /\ TypeOK
  BY TypeOkStep DEF TypeInv
<1>2. ASSUME NEW p \in Proc, Acts(p) PROVE \A q \in Proc : ProcOk(q)'
  BY <1>1, <1>2, ActsProcOk, ActsAlone, SameProcOk
<1>3. ASSUME UNCHANGED vars \/ Interrupt \/ Parent \/ \E h \in Host : Expire(h) \/ PageChanges(h)
      PROVE  \A q \in Proc : ProcOk(q)'
  <2>1. \A q \in Proc : Same(q)
    BY <1>3 DEF vars, Interrupt, Parent, ParentStops, ParentEnds, Expire, PageChanges, Same,
       request, relaying, sending, hist
  <2> QED BY <2>1, SameProcOk
<1> QED BY <1>1, <1>2, <1>3 DEF TypeInv, Next, Acts

\* Every variable of the proxy keeps its type: no process sends from a file
\* that is not there, or has more of a page than there is.
THEOREM TypesHold == Spec => []TypeOK
<1>1. TypeInv => TypeOK
  BY DEF TypeInv
<1> QED BY <1>1, TypeInit, TypeStep, PTL DEF Spec

(* -------------------------------- SIGINT ------------------------------ *)

LEMMA LateStep ==
  ASSUME TypeInv, NEW p \in Proc, LateOk(p), Acts(p)
  PROVE  LateOk(p)'
<1>0. TypeOK /\ late[p] \in Nat
  BY DEF TypeInv, TypeOK
<1> USE DEF At, Goto, relaying, sending, cache, locks, list, request, hist
<1>1. CASE Accept(p) \/ ChildSigint(p) \/ RecvEnds(p) \/ Refuse(p) \/ RefusedRequest(p) \/ Malformed(p)
  <2>1. late'[p] = late[p] /\ (check'[p] => check[p])
    BY <1>0, <1>1 DEF Accept, ChildSigint, RecvEnds, Refuse, RefusedRequest, Malformed, Takes, TypeOK
  <2>2. /\ pc[p] \in {"closed", "gone"} => pc'[p] \in {"closed", "gone"}
        /\ pc[p] \in {"send", "starved"} =>
             pc'[p] \in {"send", "starved"} /\ conn'[p] = conn[p]
    BY <1>0, <1>1 DEF Accept, ChildSigint, RecvEnds, Refuse, RefusedRequest, Malformed, Takes, TypeOK
  <2> QED BY <2>1, <2>2 DEF LateOk
<1>2. CASE \E h \in budget.hosts, connection \in {"keep", "close"} : Request(p, h, connection)
  <2>1. pc[p] = "recv" /\ late'[p] = late[p]
    BY <1>2 DEF Request, Takes
  <2> QED BY <2>1 DEF LateOk
<1>3. CASE ScanStart(p) \/ ScanKept(p) \/ Scan(p) \/ ScanEnd(p)
           \/ NoScan(p) \/ Unresolved(p)
           \/ ConnectFails(p) \/ FetchOther(p) \/ Fetch(p)
           \/ Truncate(p) \/ WriteLock(p) \/ Fill(p) \/ Flush(p) \/ WriteUnlock(p) \/ Close(p)
           \/ ServerEnds(p)
  <2>1. late'[p] = late[p]
    BY <1>3 DEF ScanStart, ScanKept, Scan, ScanEnd, ScanStep, NoScan, Unresolved, ConnectFails, FetchOther,
       Fetch, Fetches, Truncate, WriteLock, Fill, Flush, WriteUnlock, Close, ServerEnds, WriteStep
  <2>2. pc[p] \notin {"send", "starved", "closed", "gone"}
    BY <1>3 DEF ScanStart, ScanKept, Scan, ScanEnd, NoScan, Unresolved, ConnectFails, FetchOther,
       Fetch, Fetches, Truncate, WriteLock, Fill, Flush, WriteUnlock, Close, ServerEnds
  <2> QED BY <2>1, <2>2 DEF LateOk
<1>4. CASE ReadLock(p)
  <2>1. /\ pc[p] = "read" /\ pc'[p] = "send" /\ check'[p] = check[p]
        /\ conn'[p] = IF check[p] THEN conn[p] ELSE "close"
        /\ late'[p] = IF check[p] THEN late[p] ELSE late[p] + 1
    BY <1>0, <1>4 DEF ReadLock, SendStep, TypeOK
  <2>2. late[p] = 0
    BY <1>0, <2>1 DEF LateOk
  <2> QED BY <2>1, <2>2 DEF LateOk
<1>5. CASE SendPiece(p) \/ Starve(p) \/ Sent(p) \/ ClientLeaves(p)
  <2>1. late'[p] = late[p] /\ check'[p] = check[p] /\ pc[p] \in {"send", "starved"}
    BY <1>5 DEF SendPiece, Starve, Sent, ClientLeaves, SendStep
  <2>2. \/ pc'[p] \in {"send", "starved"} /\ conn'[p] = conn[p]
        \/ pc'[p] = IF conn[p] = "close" THEN "closed" ELSE "recv"
        \/ pc'[p] = "gone"
    BY <1>0, <1>5 DEF SendPiece, Starve, Sent, ClientLeaves, Answered, Ends, TypeOK
  <2> QED BY <2>1, <2>2 DEF LateOk
<1> QED BY <1>1, <1>2, <1>3, <1>4, <1>5 DEF Acts, Ask, Step

(* ------------------------------ blocklist ----------------------------- *)

\* Once two scans have met that is remembered until the next request; no
\* other step forgets it, and blocked does not change.
LEMMA MetStays ==
  ASSUME TypeOK, [Next]_vars, NEW q \in Proc
  PROVE  /\ blocked' = blocked
         /\ overlapped[q] /\ ~overlapped'[q] => pc[q] = "recv" /\ pc'[q] \in {"read", "resolve"}
<1> USE DEF relaying, sending, cache, locks, list, request, hist
<1> DEFINE Goal == /\ blocked' = blocked
                   /\ overlapped[q] /\ ~overlapped'[q] =>
                        pc[q] = "recv" /\ pc'[q] \in {"read", "resolve"}
<1>1. CASE UNCHANGED vars \/ Interrupt \/ Parent \/ \E h \in Host : Expire(h) \/ PageChanges(h)
  BY <1>1 DEF vars, Interrupt, Parent, ParentStops, ParentEnds, Expire, PageChanges
<1>2. ASSUME NEW p \in Proc, NEW h \in budget.hosts, NEW connection \in {"keep", "close"},
             Request(p, h, connection)
      PROVE  Goal
  BY <1>2 DEF Request, Takes, At, Goto, TypeOK
<1>3. ASSUME NEW p \in Proc, ScanStart(p) \/ ScanKept(p) \/ Scan(p) \/ ScanEnd(p)
      PROVE  Goal
  <2>1. ScanStep(p)
    BY <1>3 DEF ScanStart, ScanKept, Scan, ScanEnd
  <2> QED BY <2>1, Zenon DEF ScanStep, Meets
<1>4. ASSUME NEW p \in Proc, Acts(p), ~(ScanStart(p) \/ ScanKept(p) \/ Scan(p) \/ ScanEnd(p)),
             ~(\E h \in budget.hosts, connection \in {"keep", "close"} : Request(p, h, connection))
      PROVE  UNCHANGED <<blocked, overlapped>>
  <2>1. CASE Accept(p) \/ ChildSigint(p) \/ RecvEnds(p) \/ Refuse(p) \/ RefusedRequest(p) \/ Malformed(p)
    BY <2>1 DEF Accept, ChildSigint, RecvEnds, Refuse, RefusedRequest, Malformed, Takes
  <2>2. CASE NoScan(p) \/ Unresolved(p) \/ ConnectFails(p) \/ FetchOther(p) \/ Fetch(p)
    BY <2>2 DEF NoScan, Unresolved, ConnectFails, FetchOther, Fetch, Fetches
  <2>3. CASE \/ Truncate(p) \/ WriteLock(p) \/ Fill(p) \/ Flush(p) \/ WriteUnlock(p) \/ Close(p)
             \/ ServerEnds(p)
    BY <2>3 DEF Truncate, WriteLock, Fill, Flush, WriteUnlock, Close, ServerEnds, WriteStep
  <2>4. CASE ReadLock(p) \/ SendPiece(p) \/ Starve(p) \/ Sent(p) \/ ClientLeaves(p)
    BY <2>4 DEF ReadLock, SendPiece, Starve, Sent, ClientLeaves, SendStep
  <2> QED BY <1>4, <2>1, <2>2, <2>3, <2>4 DEF Acts, Ask, Step
<1>5. ASSUME NEW p \in Proc, Acts(p) PROVE Goal
  BY <1>2, <1>3, <1>4, <1>5
<1> QED BY <1>1, <1>5 DEF Next, Acts

\* The offset of the blocklist is moved in scans only, and each of them is
\* seen by every other one.
LEMMA OthersScanOk ==
  ASSUME TypeInv, [Next]_vars, NEW p \in Proc, NEW q \in Proc, p # q, Acts(p), ScanOk(q)
  PROVE  ScanOk(q)'
<1>0. TypeOK /\ Same(q) /\ blocked' = blocked
  BY ActsAlone, MetStays DEF TypeInv
<1>1. overlapped[q] => overlapped'[q]
  BY <1>0, MetStays DEF Same
<1>2. CASE ScanStart(p) \/ ScanKept(p) \/ Scan(p) \/ ScanEnd(p)
  <2>1. Meets(p)
    BY <1>2 DEF ScanStart, ScanKept, Scan, ScanEnd, ScanStep
  <2>2. pc[q] \in Scanning => overlapped'[q]
    BY <2>1 DEF Meets
  <2> QED BY <1>0, <1>1, <2>2 DEF ScanOk, Same, Scanning
<1>3. CASE ~(ScanStart(p) \/ ScanKept(p) \/ Scan(p) \/ ScanEnd(p))
  <2>1. top' = top
    <3> USE DEF list
    <3>1. CASE Accept(p) \/ ChildSigint(p) \/ RecvEnds(p) \/ Refuse(p) \/ Ask(p)
      BY <3>1 DEF Accept, ChildSigint, RecvEnds, Refuse, Ask, Request, RefusedRequest, Malformed, Takes
    <3>2. CASE NoScan(p) \/ Unresolved(p) \/ ConnectFails(p) \/ FetchOther(p) \/ Fetch(p)
      BY <3>2 DEF NoScan, Unresolved, ConnectFails, FetchOther, Fetch, Fetches
    <3>3. CASE \/ Truncate(p) \/ WriteLock(p) \/ Fill(p) \/ Flush(p) \/ WriteUnlock(p) \/ Close(p)
               \/ ServerEnds(p)
      BY <3>3 DEF Truncate, WriteLock, Fill, Flush, WriteUnlock, Close, ServerEnds, WriteStep
    <3>4. CASE ReadLock(p) \/ SendPiece(p) \/ Starve(p) \/ Sent(p) \/ ClientLeaves(p)
      BY <3>4 DEF ReadLock, SendPiece, Starve, Sent, ClientLeaves, SendStep
    <3> QED BY <1>3, <3>1, <3>2, <3>3, <3>4 DEF Acts, Step
  <2> QED BY <1>0, <1>1, <2>1 DEF ScanOk, Same
<1> QED BY <1>2, <1>3

LEMMA OwnScanOk ==
  ASSUME TypeInv, [Next]_vars, NEW p \in Proc, Acts(p), ScanOk(p)
  PROVE  ScanOk(p)'
<1>0. TypeOK /\ blocked' = blocked
  BY MetStays DEF TypeInv
<1>1. CASE ScanStart(p)
  <2>1. pc'[p] = "scan" /\ top' = TRUE
    BY <1>0, <1>1 DEF ScanStart, GoesOn, Goto, TypeOK
  <2> QED BY <2>1 DEF ScanOk, Relaying, Writing
<1>2. CASE ScanKept(p)
  <2>1. \/ pc'[p] \in {"closed", "recv"}
        \/ pc'[p] = "scan_end" /\ host'[p] = host[p] /\ host[p] \notin blocked
    BY <1>0, <1>2 DEF ScanKept, GoesOn, Answered, Goto, TypeOK
  <2> QED BY <1>0, <2>1 DEF ScanOk, Relaying, Writing
<1>3. CASE Scan(p)
  <2>1. /\ pc[p] = "scan"
        /\ \/ pc'[p] \in {"closed", "recv"}
           \/ pc'[p] = "scan_end" /\ host'[p] = host[p] /\ host[p] \notin blocked
           \/ pc'[p] = "fetch" /\ ~top
    BY <1>0, <1>3 DEF Scan, GoesOn, Answered, At, Goto, TypeOK
  <2>2. pc'[p] = "fetch" => overlapped'[p]
    BY <1>0, <2>1, MetStays DEF ScanOk
  <2> QED BY <1>0, <2>1, <2>2 DEF ScanOk, Relaying, Writing
<1>4. CASE ScanEnd(p)
  <2>1. pc[p] = "scan_end" /\ pc'[p] = "fetch" /\ host'[p] = host[p]
    BY <1>0, <1>4 DEF ScanEnd, GoesOn, At, Goto, TypeOK
  <2> QED BY <1>0, <2>1 DEF ScanOk
<1>5. CASE \/ Fetch(p) \/ Truncate(p) \/ WriteLock(p) \/ Fill(p) \/ Flush(p) \/ WriteUnlock(p)
           \/ ServerEnds(p)
  <2>1. pc[p] \in Relaying /\ (pc'[p] = "gone" \/ (pc'[p] \in Relaying /\ host'[p] = host[p]))
    BY <1>0, <1>5 DEF Fetch, Fetches, Truncate, WriteLock, Fill, Flush, WriteUnlock, ServerEnds, Ends,
       At, Goto, TypeOK, Relaying, Writing, request
  <2>2. overlapped[p] => overlapped'[p]
    BY <1>0, <2>1, MetStays DEF Relaying, Writing
  <2> QED BY <1>0, <2>1, <2>2 DEF ScanOk, Relaying, Writing
<1>6. CASE \/ RecvEnds(p) \/ Refuse(p) \/ Ask(p) \/ Accept(p) \/ Unresolved(p) \/ ConnectFails(p) \/ FetchOther(p)
           \/ Close(p) \/ ReadLock(p) \/ SendPiece(p) \/ Starve(p) \/ Sent(p) \/ ClientLeaves(p)
  <2>1. pc'[p] \in {"recv", "refuse", "closed", "gone", "read", "resolve", "send", "starved"}
    <3>1. CASE RecvEnds(p) \/ Refuse(p) \/ Ask(p) \/ Accept(p)
      BY <1>0, <3>1 DEF RecvEnds, Refuse, Ask, Request, RefusedRequest, Malformed, Accept, Goto, TypeOK
    <3>2. CASE Unresolved(p) \/ ConnectFails(p) \/ FetchOther(p)
      BY <1>0, <3>2 DEF Unresolved, ConnectFails, FetchOther, Goto, TypeOK
    <3>3. CASE Close(p) \/ ReadLock(p) \/ SendPiece(p) \/ Starve(p) \/ Sent(p) \/ ClientLeaves(p)
      BY <1>0, <3>3 DEF Close, ReadLock, SendPiece, Starve, Sent, Answered, ClientLeaves, Ends, At,
         Goto, TypeOK
    <3> QED BY <1>6, <3>1, <3>2, <3>3
  <2> QED BY <2>1 DEF ScanOk, Relaying, Writing
<1>7. CASE ChildSigint(p)
  <2>1. /\ pc'[p] \in {"gone", "starved"} \/ pc'[p] = pc[p]
        /\ UNCHANGED <<host, top, overlapped>>
    BY <1>0, <1>7 DEF ChildSigint, Goto, TypeOK, list, hist
  <2> QED BY <1>0, <2>1 DEF ScanOk, Relaying, Writing
<1>8. CASE NoScan(p)
  <2>1. pc'[p] = "fetch" /\ blocked = {}
    BY <1>0, <1>8 DEF NoScan, Goto, TypeOK
  <2> QED BY <1>0, <2>1 DEF ScanOk
<1> QED BY <1>1, <1>2, <1>3, <1>4, <1>5, <1>6, <1>7, <1>8 DEF Acts, Step

(* ------------------------------ cache files --------------------------- *)

Touches(p) == Truncate(p) \/ Flush(p) \/ Close(p) \/ ServerEnds(p)

\* Who writes a page: the steps of p change that for p alone.
LEMMA WritersOf ==
  ASSUME TypeInv, NEW p \in Proc, Acts(p), NEW h \in Host
  PROVE  /\ \A q \in Proc \ {p} : /\ q \in Writers(h)' <=> q \in Writers(h)
                                 /\ ver'[q] = ver[q] /\ off'[q] = off[q]
         /\ p \in Writers(h)' <=> pc'[p] \in Writing /\ host'[p] = h
         /\ p \in Writers(h) <=> pc[p] \in Writing /\ host[p] = h
         /\ Writers(h) \subseteq Proc /\ Writers(h)' \subseteq Proc
BY ActsAlone DEF TypeInv, Same, Writers

LEMMA SameWriters ==
  ASSUME TypeInv, NEW p \in Proc, Acts(p), NEW h \in Host,
         (pc'[p] \in Writing /\ host'[p] = h) <=> (pc[p] \in Writing /\ host[p] = h)
  PROVE  Writers(h)' = Writers(h)
<1>1. \A q \in Proc : q \in Writers(h)' <=> q \in Writers(h)
  BY WritersOf
<1> QED BY <1>1, WritersOf

LEMMA QuietWriters ==
  ASSUME TypeInv, NEW p \in Proc, Acts(p), ~Touches(p), NEW h \in Host
  PROVE  /\ Writers(h)' = Writers(h) /\ UNCHANGED <<file, fetched>>
         /\ \A q \in Writers(h) : ver'[q] = ver[q] /\ off'[q] = off[q]
<1>0. TypeOK /\ ProcOk(p)
  BY DEF TypeInv
<1>1. pc'[p] \in Writing \/ pc[p] \in Writing =>
        /\ pc[p] \in Writing /\ pc'[p] \in Writing
        /\ host'[p] = host[p] /\ ver'[p] = ver[p] /\ off'[p] = off[p]
  <2> USE DEF Goto, At, Writing, TypeOK
  <2>1. CASE Accept(p) \/ ChildSigint(p) \/ RecvEnds(p) \/ Refuse(p) \/ Ask(p)
    BY <1>0, <2>1 DEF Accept, ChildSigint, RecvEnds, Refuse, Ask, Request, RefusedRequest, Malformed, Takes, relaying
  <2>2. CASE NoScan(p) \/ Unresolved(p) \/ ConnectFails(p) \/ FetchOther(p) \/ Fetch(p)
    BY <1>0, <2>2 DEF NoScan, Unresolved, ConnectFails, FetchOther, Fetch, Fetches
  <2>3. CASE ScanStart(p) \/ ScanKept(p) \/ Scan(p) \/ ScanEnd(p)
    <3>1. CASE ScanStart(p) \/ ScanEnd(p)
      BY <1>0, <3>1 DEF ScanStart, ScanEnd, GoesOn
    <3>2. CASE ScanKept(p)
      BY <1>0, <3>2 DEF ScanKept, GoesOn, Answered
    <3>3. CASE Scan(p)
      BY <1>0, <3>3 DEF Scan, GoesOn, Answered
    <3> QED BY <2>3, <3>1, <3>2, <3>3
  <2>4. CASE WriteLock(p) \/ Fill(p) \/ WriteUnlock(p)
    BY <1>0, <2>4 DEF WriteLock, Fill, WriteUnlock, relaying
  <2>5. CASE ReadLock(p) \/ SendPiece(p) \/ Starve(p) \/ Sent(p) \/ ClientLeaves(p)
    BY <1>0, <2>5 DEF ReadLock, SendPiece, Starve, Sent, Answered, ClientLeaves, Ends
  <2>6. \/ Accept(p) \/ ChildSigint(p) \/ RecvEnds(p) \/ Refuse(p) \/ Ask(p)
        \/ NoScan(p) \/ Unresolved(p) \/ ConnectFails(p) \/ FetchOther(p) \/ Fetch(p)
        \/ ScanStart(p) \/ ScanKept(p) \/ Scan(p) \/ ScanEnd(p)
        \/ WriteLock(p) \/ Fill(p) \/ WriteUnlock(p)
        \/ ReadLock(p) \/ SendPiece(p) \/ Starve(p) \/ Sent(p) \/ ClientLeaves(p)
    BY DEF Acts, Step, Touches
  <2> QED BY <2>1, <2>2, <2>3, <2>4, <2>5, <2>6
<1>2. Writers(h)' = Writers(h)
  BY <1>1, WritersOf
<1>3. UNCHANGED <<file, fetched>>
  BY FewTouchFiles DEF Touches
<1>4. \A q \in Writers(h) : ver'[q] = ver[q] /\ off'[q] = off[q]
  BY <1>1, WritersOf
<1> QED BY <1>2, <1>3, <1>4

\* A file that has all the pieces of a version, and no more, is that version.
LEMMA WholeIs ==
  ASSUME NEW d \in Data, NEW v \in Version
  PROVE  /\ d = Whole(v) => Len(d) = PageSize[v] /\ \A i \in 1..PageSize[v] : d[i] = v
         /\ (/\ Len(d) <= PageSize[v]
             /\ \A i \in 1..PageSize[v] : i \in DOMAIN d /\ d[i] = v) => d = Whole(v)
         /\ PageSize[v] \in Nat \ {0} /\ SizeOf(v) = PageSize[v]
<1>1. PageSize[v] \in Nat \ {0} /\ SizeOf(v) = PageSize[v]
  BY ProxyAssumption DEF Version, SizeOf, NoLength
<1>2. Whole(v) = [i \in 1..PageSize[v] |-> v]
  BY <1>1 DEF Whole
<1>3. ASSUME d = Whole(v) PROVE Len(d) = PageSize[v] /\ \A i \in 1..PageSize[v] : d[i] = v
  BY <1>1, <1>2, <1>3
<1>4. ASSUME Len(d) <= PageSize[v], \A i \in 1..PageSize[v] : i \in DOMAIN d /\ d[i] = v
      PROVE  d = Whole(v)
  <2>1. Len(d) \in Nat /\ DOMAIN d = 1..Len(d)
    BY DataIs
  <2>2. PageSize[v] \in 1..PageSize[v] /\ PageSize[v] <= Len(d)
    BY <1>1, <1>4, <2>1
  <2>3. DOMAIN d = 1..PageSize[v]
    BY <1>1, <1>4, <2>1, <2>2
  <2>4. d = [i \in 1..PageSize[v] |-> d[i]]
    BY <2>3 DEF Data
  <2> QED BY <1>2, <1>4, <2>4
<1> QED BY <1>1, <1>3, <1>4

\* Of one version, a write adds pieces and spoils none.
Keeps(p, h, v) ==
  /\ ver[p] = v
  /\ file'[h] # Absent /\ Len(file'[h]) <= PageSize[v]
  /\ \A i \in DOMAIN file'[h] : file'[h][i] \in {v, Hole}
  /\ \A i \in DOMAIN file[h] : file[h][i] = v => i \in DOMAIN file'[h] /\ file'[h][i] = v
  /\ \A i \in off[p] + 1 .. got[p] : i \in DOMAIN file'[h] /\ file'[h][i] = v
  /\ file[h] = Whole(v) => file'[h] = Whole(v)
LEMMA PutOutKeeps ==
  ASSUME TypeInv, NEW p \in Proc, pc[p] \in {"fill", "close"}, PutOut(p),
         NEW h \in Host, h = host[p], FileOk(h), NEW v \in Version, fetched[h] = {v}
  PROVE  Keeps(p, h, v)
<1>0. TypeOK /\ ProcOk(p)
  BY DEF TypeInv
<1>1. /\ file' = [file EXCEPT ![h] = Written(file[h], off[p] + 1, got[p], ver[p])]
      /\ file[h] \in Data /\ file'[h] \in Data
  BY PutOutType
<1>2. p \in Writers(h) /\ ver[p] = v
  <2>1. p \in Writers(h)
    BY DEF Writers, Writing
  <2> QED BY <2>1 DEF FileOk
<1>3. off[p] + 1 \in Nat \ {0} /\ off[p] \in Nat /\ got[p] \in Nat /\ v \in Version \cup {NoLength}
  BY <1>0 DEF TypeOK
<1>4. file'[h] = Written(file[h], off[p] + 1, got[p], v)
  BY <1>0, <1>1, <1>2 DEF TypeOK
<1>5. got[p] <= PageSize[v] /\ PageSize[v] \in Nat
  BY <1>0, <1>1, <1>2, WholeIs DEF ProcOk, Writing
<1>6. /\ Len(file[h]) <= PageSize[v] /\ Len(file[h]) \in Nat /\ DOMAIN file[h] = 1..Len(file[h])
      /\ \A i \in DOMAIN file[h] : file[h][i] \in {v, Hole}
  BY <1>1, DataIs DEF FileOk
<1>7. /\ DOMAIN file'[h] = 1..Len(file'[h])
      /\ Len(file'[h]) = IF got[p] > Len(file[h]) THEN got[p] ELSE Len(file[h])
      /\ \A k \in 1..Len(file'[h]) :
           file'[h][k] = IF k \in off[p] + 1 .. got[p] THEN v
                         ELSE IF k \in DOMAIN file[h] THEN file[h][k] ELSE Hole
      /\ file'[h] # Absent
  <2>1. /\ Len(Written(file[h], off[p] + 1, got[p], v)) =
             IF got[p] > Len(file[h]) THEN got[p] ELSE Len(file[h])
        /\ \A k \in 1..Len(Written(file[h], off[p] + 1, got[p], v)) :
             Written(file[h], off[p] + 1, got[p], v)[k] =
               IF k \in off[p] + 1 .. got[p] THEN v
               ELSE IF k \in DOMAIN file[h] THEN file[h][k] ELSE Hole
    <3> DEFINE d == file[h]
               i == off[p] + 1
               j == got[p]
    <3>1. d \in Data /\ i \in Nat \ {0} /\ j \in Nat /\ v \in Version \cup {NoLength}
      BY <1>1, <1>3
    <3> HIDE DEF d, i, j
    <3>2. Grown(Written(d, i, j, v), d, i, j, v)
      BY <3>1, WrittenIs
    <3> QED BY <3>2 DEF d, i, j, Grown
  <2>2. DOMAIN file'[h] = 1..Len(file'[h]) /\ file'[h] # Absent
    BY <1>1, DataIs
  <2> QED BY <1>4, <2>1, <2>2
<1>8. Len(file'[h]) <= PageSize[v]
  BY <1>3, <1>5, <1>6, <1>7
<1>9. \A i \in DOMAIN file'[h] : file'[h][i] \in {v, Hole}
  BY <1>6, <1>7
<1>10. \A i \in DOMAIN file[h] : file[h][i] = v => i \in DOMAIN file'[h] /\ file'[h][i] = v
  BY <1>3, <1>6, <1>7
<1>11. \A i \in off[p] + 1 .. got[p] : i \in DOMAIN file'[h] /\ file'[h][i] = v
  BY <1>3, <1>6, <1>7
<1>12. ASSUME file[h] = Whole(v) PROVE file'[h] = Whole(v)
  <2>1. Len(file[h]) = PageSize[v] /\ \A i \in 1..PageSize[v] : file[h][i] = v
    BY <1>1, <1>12, WholeIs
  <2>2. \A i \in 1..PageSize[v] : i \in DOMAIN file'[h] /\ file'[h][i] = v
    BY <1>6, <1>10, <2>1
  <2> QED BY <1>1, <1>8, <2>2, WholeIs
<1> QED BY <1>1, <1>2, <1>7, <1>8, <1>9, <1>10, <1>11, <1>12 DEF Keeps

\* What the steps that touch the cache leave alone.
LEMMA SameFile ==
  ASSUME NEW h \in Host, FileOk(h), Writers(h)' = Writers(h), file'[h] = file[h],
         fetched'[h] = fetched[h],
         \A q \in Writers(h) : ver'[q] = ver[q] /\ off'[q] = off[q]
  PROVE  FileOk(h)'
<1>1. \A v : Whole(v)' = Whole(v)
  BY DEF Whole, SizeOf
<1>2. \A q \in Writers(h) : \A v : Out(q, h, v)' <=> Out(q, h, v)
  BY DEF Out
<1>3. \A q \in Writers(h)' : ver'[q] \in fetched'[h]
  BY DEF FileOk
<1>4. ASSUME NEW v \in Version, fetched'[h] = {v}
      PROVE  /\ file'[h] # Absent /\ Len(file'[h]) <= PageSize[v]
             /\ \A i \in DOMAIN file'[h] : file'[h][i] \in {v, Hole}
             /\ file'[h] = Whole(v)' \/ \E q \in Writers(h)' : Out(q, h, v)'
  BY <1>1, <1>2, <1>4 DEF FileOk
<1> QED BY <1>3, <1>4 DEF FileOk

LEMMA FileStep ==
  ASSUME TypeInv, NEW p \in Proc, Acts(p), NEW h \in Host, FileOk(h)
  PROVE  FileOk(h)'
<1>0. TypeOK /\ ProcOk(p)
  BY DEF TypeInv
<1>1. CASE ~Touches(p)
  BY <1>1, QuietWriters, SameFile
<1>2. CASE Touches(p) /\ host[p] # h
  <2>1. host'[p] # h
    BY <1>0, <1>2, ProxyAssumption DEF Touches, Truncate, Flush, Close, ServerEnds, Ends,
       RequestReturns, TypeOK
  <2>2. Writers(h)' = Writers(h)
    BY <1>2, <2>1, SameWriters
  <2>4. \A q \in Writers(h) : ver'[q] = ver[q] /\ off'[q] = off[q]
    BY <1>2, WritersOf
  <2>3. file'[h] = file[h] /\ fetched'[h] = fetched[h]
    BY <1>0, <1>2 DEF Touches, Truncate, Flush, Close, ServerEnds, PutOut, TypeOK, cache
  <2> QED BY <2>2, <2>3, <2>4, SameFile
<1>3. CASE Truncate(p) /\ host[p] = h
  <2>1. /\ pc'[p] = "lock" /\ UNCHANGED <<host, ver, got, off>> /\ off[p] = 0
        /\ file'[h] = <<>>
        /\ fetched'[h] = IF Writers(h) = {} THEN {ver[p]} ELSE fetched[h] \cup {ver[p]}
    BY <1>0, <1>3 DEF Truncate, At, Goto, TypeOK, ProcOk, relaying
  <2>2. Writers(h)' = Writers(h) \cup {p}
    BY <1>3, <2>1, WritersOf DEF Writing
  <2>3. \A q \in Writers(h)' : ver'[q] \in fetched'[h]
    BY <2>1, <2>2 DEF FileOk
  <2>4. file'[h] # Absent /\ Len(file'[h]) = 0 /\ DOMAIN file'[h] = {}
    <3>1. <<>> \in Data /\ Len(<<>>) = 0
      BY DEF Data
    <3> QED BY <2>1, <3>1, DataIs
  <2>5. \A v \in Version : Out(p, h, v)'
    BY <2>1 DEF Out
  <2>6. \A v \in Version : PageSize[v] \in Nat
    BY ProxyAssumption DEF Version
  <2> QED BY <2>2, <2>3, <2>4, <2>5, <2>6 DEF FileOk
<1>4. CASE Flush(p) /\ host[p] = h
  <2>1. /\ pc[p] \in {"fill", "close"} /\ PutOut(p) /\ UNCHANGED <<pc, host, ver, got, fetched>>
        /\ off'[p] = got[p] /\ off[p] \in Nat /\ got[p] \in Nat
    BY <1>0, <1>4 DEF Flush, TypeOK
  <2>2. Writers(h)' = Writers(h) /\ \A q \in Writers(h) \ {p} : off'[q] = off[q]
    <3>1. pc'[p] = pc[p] /\ host'[p] = host[p]
      BY <2>1
    <3>2. Writers(h)' = Writers(h)
      BY <3>1, SameWriters
    <3> QED BY <3>2, WritersOf
  <2>3. ASSUME NEW v \in Version, fetched[h] = {v}
        PROVE  /\ file'[h] # Absent /\ Len(file'[h]) <= PageSize[v]
               /\ \A i \in DOMAIN file'[h] : file'[h][i] \in {v, Hole}
               /\ file'[h] = Whole(v) \/ \E q \in Writers(h) : Out(q, h, v)'
    <3>1. /\ file'[h] # Absent /\ Len(file'[h]) <= PageSize[v]
          /\ \A i \in DOMAIN file'[h] : file'[h][i] \in {v, Hole}
          /\ \A i \in DOMAIN file[h] : file[h][i] = v => i \in DOMAIN file'[h] /\ file'[h][i] = v
          /\ \A i \in off[p] + 1 .. got[p] : i \in DOMAIN file'[h] /\ file'[h][i] = v
          /\ file[h] = Whole(v) => file'[h] = Whole(v)
      <4>1. /\ pc[p] \in {"fill", "close"} /\ PutOut(p) /\ h = host[p] /\ FileOk(h)
            /\ fetched[h] = {v}
        BY <1>4, <2>1, <2>3
      <4>2. Keeps(p, h, v)
        BY <4>1, PutOutKeeps
      <4> QED BY <4>2 DEF Keeps
    <3>2. ASSUME NEW q \in Writers(h), Out(q, h, v) PROVE Out(q, h, v)'
      <4>1. CASE q # p
        BY <2>2, <3>1, <3>2, <4>1 DEF Out
      <4>2. CASE q = p
        <5>1. \A i \in 1..got[p] : i \in 1..off[p] \/ i \in off[p] + 1 .. got[p]
          BY <2>1
        <5> QED BY <2>1, <3>1, <3>2, <4>2, <5>1 DEF Out
      <4> QED BY <4>1, <4>2
    <3> QED BY <2>3, <3>1, <3>2 DEF FileOk
  <2>4. \A v : Whole(v)' = Whole(v)
    BY DEF Whole, SizeOf
  <2> QED BY <2>1, <2>2, <2>3, <2>4 DEF FileOk
<1>5. CASE Close(p) /\ host[p] = h
  <2>1. /\ pc[p] = "close" /\ pc'[p] = "read" /\ UNCHANGED <<host, fetched>>
        /\ IF off[p] < got[p] THEN PutOut(p) ELSE UNCHANGED file
        /\ got[p] = SizeOf(ver[p]) /\ off[p] <= got[p] /\ off[p] \in Nat /\ got[p] \in Nat
    BY <1>0, <1>5 DEF Close, At, Goto, TypeOK, ProcOk, Writing, cache
  <2>2. /\ Writers(h)' = Writers(h) \ {p} /\ p \in Writers(h)
        /\ \A q \in Writers(h) \ {p} : ver'[q] = ver[q] /\ off'[q] = off[q]
    BY <1>5, <2>1, WritersOf DEF Writing
  <2>3. ASSUME NEW v \in Version, fetched[h] = {v}
        PROVE  /\ file'[h] # Absent /\ Len(file'[h]) <= PageSize[v]
               /\ \A i \in DOMAIN file'[h] : file'[h][i] \in {v, Hole}
               /\ file'[h] = Whole(v) \/ \E q \in Writers(h) \ {p} : Out(q, h, v)'
    <3>1. ver[p] = v /\ got[p] = PageSize[v]
      BY <2>1, <2>2, <2>3, SizeType DEF FileOk, SizeOf, Version, NoLength
    <3>2. /\ file'[h] # Absent /\ Len(file'[h]) <= PageSize[v]
          /\ \A i \in DOMAIN file'[h] : file'[h][i] \in {v, Hole}
          /\ \A i \in DOMAIN file[h] : file[h][i] = v => i \in DOMAIN file'[h] /\ file'[h][i] = v
          /\ off[p] < got[p] => \A i \in off[p] + 1 .. got[p] : i \in DOMAIN file'[h] /\ file'[h][i] = v
          /\ file[h] = Whole(v) => file'[h] = Whole(v)
      <4>1. CASE off[p] < got[p]
        <5>1. /\ pc[p] \in {"fill", "close"} /\ PutOut(p) /\ h = host[p] /\ FileOk(h)
              /\ fetched[h] = {v}
          BY <1>5, <2>1, <2>3, <4>1
        <5>2. Keeps(p, h, v)
          BY <5>1, PutOutKeeps
        <5> QED BY <5>2 DEF Keeps
      <4>2. CASE ~(off[p] < got[p])
        BY <2>1, <2>3, <4>2 DEF FileOk
      <4> QED BY <4>1, <4>2
    <3>3. ASSUME NEW q \in Writers(h), Out(q, h, v)
          PROVE  file'[h] = Whole(v) \/ \E x \in Writers(h) \ {p} : Out(x, h, v)'
      <4>1. CASE q # p
        <5>1. Out(q, h, v)'
          BY <2>2, <3>2, <3>3, <4>1 DEF Out
        <5> QED BY <4>1, <5>1
      <4>2. CASE q = p
        <5>1. \A i \in 1..PageSize[v] : i \in 1..off[p] \/ (off[p] < got[p] /\ i \in off[p] + 1 .. got[p])
          BY <2>1, <3>1
        <5>2. \A i \in 1..PageSize[v] : i \in DOMAIN file'[h] /\ file'[h][i] = v
          BY <3>2, <3>3, <4>2, <5>1 DEF Out
        <5>3. file'[h] \in Data
          BY <3>2, TypeOkStep DEF TypeOK, Next, Acts
        <5> QED BY <3>2, <5>2, <5>3, WholeIs
      <4> QED BY <4>1, <4>2
    <3> QED BY <2>3, <3>2, <3>3 DEF FileOk
  <2>4. \A v : Whole(v)' = Whole(v)
    BY DEF Whole, SizeOf
  <2>5. \A q \in Writers(h)' : ver'[q] \in fetched'[h]
    BY <2>1, <2>2 DEF FileOk
  <2> QED BY <2>1, <2>2, <2>3, <2>4, <2>5 DEF FileOk
<1>6. CASE ServerEnds(p) /\ host[p] = h
  <2>1. CASE Ends(p)
    <3>1. fetched'[h] = fetched[h] \cup {Torn}
      BY <1>0, <1>6, <2>1 DEF ServerEnds, Ends, At, Goto, TypeOK
    <3>2. \A v \in Version : fetched'[h] # {v}
      <4>1. Torn \in fetched'[h] /\ Torn \notin Version
        BY <3>1, ProxyAssumption DEF Torn, Version
      <4> QED BY <4>1
    <3>3. Writers(h)' \subseteq Writers(h) /\ \A q \in Writers(h)' : ver'[q] = ver[q]
      <4>1. pc'[p] = "gone"
        BY <1>0, <2>1 DEF Ends, Goto, TypeOK
      <4> QED BY <4>1, WritersOf DEF Writing
    <3> QED BY <3>1, <3>2, <3>3 DEF FileOk
  <2>2. CASE ~Ends(p)
    <3>1. pc[p] = "fill" /\ pc'[p] = "spin" /\ UNCHANGED <<host, ver, off, fetched, file>>
      BY <1>0, <1>6, <2>2 DEF ServerEnds, At, Goto, TypeOK, relaying, cache
    <3>2. Writers(h)' = Writers(h)
      BY <3>1, SameWriters DEF Writing
    <3> QED BY <3>1, <3>2, SameFile
  <2> QED BY <2>1, <2>2
<1> QED BY <1>1, <1>2, <1>3, <1>4, <1>5, <1>6 DEF Touches

(* ------------------------- requests left alone ------------------------ *)

\* That another relay met a request is not forgotten while it is served.
LEMMA MetByOthers ==
  ASSUME TypeOK, NEW p \in Proc, NEW q \in Proc, p # q, Acts(p)
  PROVE  /\ ~disturbed'[q] => ~disturbed[q]
         /\ Truncate(p) /\ host[q] = host[p] => disturbed'[q]
<1> USE DEF TypeOK, request, relaying, sending, cache, locks, list, hist
<1>1. CASE Accept(p) \/ ChildSigint(p) \/ RecvEnds(p) \/ Refuse(p) \/ RefusedRequest(p) \/ Malformed(p)
  <2>1. UNCHANGED disturbed
    BY <1>1 DEF Accept, ChildSigint, RecvEnds, Refuse, RefusedRequest, Malformed, Takes
  <2>2. Truncate(p) => pc[p] = "open" /\ pc'[p] = "lock"
    BY DEF Truncate, At, Goto
  <2>3. ~(pc[p] = "open" /\ pc'[p] = "lock")
    BY <1>1 DEF Accept, ChildSigint, RecvEnds, Refuse, RefusedRequest, Malformed, Takes, At, Goto
  <2> QED BY <2>1, <2>2, <2>3
<1>2. CASE \E h \in budget.hosts, connection \in {"keep", "close"} : Request(p, h, connection)
  BY <1>2 DEF Request, Takes, Truncate, At
<1>3. CASE ScanStart(p) \/ ScanKept(p) \/ Scan(p) \/ ScanEnd(p)
  BY <1>3 DEF ScanStart, ScanKept, Scan, ScanEnd, GoesOn, Answered, RequestReturns, Truncate, At
<1>4. CASE NoScan(p) \/ Unresolved(p) \/ ConnectFails(p) \/ FetchOther(p) \/ Fetch(p)
  BY <1>4 DEF NoScan, Unresolved, ConnectFails, FetchOther, Fetch, Fetches, RequestReturns, Truncate, At
<1>5. CASE Truncate(p)
  <2>1. disturbed'[q] = (disturbed[q] \/ (q # p /\ host[q] = host[p]) \/ (q = p /\ Writers(host[p]) # {}))
    BY <1>5, Zenon DEF Truncate
  <2> QED BY <2>1
<1>6. CASE WriteLock(p) \/ Fill(p) \/ Flush(p) \/ WriteUnlock(p) \/ Close(p)
  BY <1>6 DEF WriteLock, Fill, Flush, WriteUnlock, Close, WriteStep, Truncate, At
<1>7. CASE ServerEnds(p) \/ ClientLeaves(p)
  BY <1>7 DEF ServerEnds, ClientLeaves, Ends, RequestReturns, Truncate, At
<1>8. CASE ReadLock(p) \/ SendPiece(p) \/ Starve(p) \/ Sent(p)
  BY <1>8 DEF ReadLock, SendPiece, Starve, Sent, Answered, RequestReturns, Truncate, At
<1> QED BY <1>1, <1>2, <1>3, <1>4, <1>5, <1>6, <1>7, <1>8 DEF Acts, Ask, Step

\* What other processes do leaves a request alone, or meets it.
LEMMA OthersAloneOk ==
  ASSUME TypeInv, NEW p \in Proc, NEW q \in Proc, p # q, Acts(p), AloneOk(q)
  PROVE  AloneOk(q)'
<1>0. TypeOK /\ Same(q) /\ ProcOk(q)
  BY ActsAlone DEF TypeInv
<1> SUFFICES ASSUME pc'[q] \in Busy, ~disturbed'[q]
             PROVE  /\ (Writers(host[q]) \subseteq {q})'
                    /\ (pc[q] = "send" => \A v \in Version : fetched[host[q]] = {v} =>
                          /\ size[q] = PageSize[v] /\ Len(sent[q]) <= size[q]
                          /\ \A i \in 1..Len(sent[q]) : sent[q][i] = v)'
  BY DEF AloneOk
<1>1. /\ pc[q] \in Busy /\ ~disturbed[q] /\ host'[q] = host[q] /\ host[q] \in Host
      /\ size'[q] = size[q] /\ sent'[q] = sent[q] /\ pc'[q] = pc[q]
  BY <1>0, MetByOthers DEF Same, ProcOk
<1>2. ~(Truncate(p) /\ host[p] = host[q])
  BY <1>0, MetByOthers
<1>3. p \notin Writers(host[q])
  BY <1>1 DEF AloneOk
<1>4. CASE ~Touches(p) \/ host[p] # host[q]
  <2> DEFINE h == host[q]
  <2>1. Writers(h)' = Writers(h) /\ fetched'[h] = fetched[h]
    <3>1. CASE ~Touches(p)
      BY <1>1, <3>1, QuietWriters
    <3>2. CASE Touches(p) /\ host[p] # h
      <4>1. host'[p] # h
        BY <1>0, <1>1, <3>2, ProxyAssumption DEF Touches, Truncate, Flush, Close, ServerEnds, Ends,
           RequestReturns, TypeOK
      <4>2. Writers(h)' = Writers(h)
        BY <1>1, <3>2, <4>1, SameWriters
      <4>3. fetched'[h] = fetched[h]
        BY <1>0, <1>1, <3>2 DEF Touches, Truncate, Flush, Close, ServerEnds, TypeOK
      <4> QED BY <4>2, <4>3
    <3> QED BY <1>4, <3>1, <3>2
  <2>2. Writers(host[q])' = Writers(h)'
    BY <1>1 DEF Writers
  <2> QED BY <1>1, <2>1, <2>2 DEF AloneOk
<1>5. CASE Touches(p) /\ host[p] = host[q]
  <2>1. pc[p] \in Writing
    BY <1>2, <1>5 DEF Touches, Flush, Close, ServerEnds, At, Writing
  <2> QED BY <1>3, <1>5, <2>1 DEF Writers
<1> QED BY <1>4, <1>5

\* A request that is not met is served from a file no one else writes.
LEMMA OwnAloneOk ==
  ASSUME TypeInv, NEW p \in Proc, Acts(p), AloneOk(p), \A h \in Host : FileOk(h)
  PROVE  AloneOk(p)'
<1>0. TypeOK /\ ProcOk(p)
  BY DEF TypeInv
<1> SUFFICES ASSUME pc'[p] \in Busy, ~disturbed'[p]
             PROVE  /\ (Writers(host[p]) \subseteq {p})'
                    /\ (pc[p] = "send" => \A v \in Version : fetched[host[p]] = {v} =>
                          /\ size[p] = PageSize[v] /\ Len(sent[p]) <= size[p]
                          /\ \A i \in 1..Len(sent[p]) : sent[p][i] = v)'
  BY DEF AloneOk
<1>a. ASSUME pc[p] \in Busy, host'[p] = host[p], ~disturbed[p]
      PROVE  (Writers(host[p]) \subseteq {p})'
  <2>1. host[p] \in Host /\ Writers(host[p]) \subseteq {p}
    BY <1>0, <1>a DEF AloneOk, ProcOk
  <2>2. \A q \in Proc \ {p} : q \notin Writers(host[p])'
    <3>1. PICK h \in Host : h = host[p]
      BY <2>1
    <3>2. \A q \in Proc \ {p} : q \in Writers(h)' <=> q \in Writers(h)
      BY WritersOf
    <3>3. \A q \in Proc \ {p} : q \notin Writers(h)
      BY <2>1, <3>1
    <3>4. Writers(host[p])' = Writers(h)'
      BY <1>a, <3>1 DEF Writers
    <3> QED BY <3>2, <3>3, <3>4
  <2> QED BY <2>2 DEF Writers
<1>1. ASSUME NEW h \in budget.hosts, NEW connection \in {"keep", "close"},
             Request(p, h, connection)
      PROVE  (Writers(host[p]) \subseteq {p})' /\ pc'[p] # "send"
  <2>1. h \in Host
    BY <1>0 DEF TypeOK, Budget
  <2>2. host'[p] = h /\ pc'[p] # "send"
    BY <1>0, <1>1 DEF Request, Goto, TypeOK
  <2>3. disturbed'[p] = (Writers(h) # {})
    BY <1>0, <1>1, Zenon DEF Request, TypeOK
  <2>4. ~Touches(p)
    BY <1>1 DEF Request, Takes, Touches, Truncate, Flush, Close, ServerEnds, At
  <2>5. Writers(h)' = Writers(h)
    BY <2>1, <2>4, QuietWriters
  <2>6. Writers(host[p])' = Writers(h)'
    BY <2>2 DEF Writers
  <2> QED BY <2>2, <2>3, <2>5, <2>6
<1>2. CASE \/ Accept(p) \/ RecvEnds(p) \/ Refuse(p) \/ RefusedRequest(p) \/ Malformed(p) \/ Unresolved(p)
           \/ ConnectFails(p) \/ FetchOther(p) \/ Sent(p) \/ ClientLeaves(p)
  BY <1>0, <1>2 DEF Accept, RecvEnds, Refuse, RefusedRequest, Malformed, Unresolved, ConnectFails, FetchOther,
     Sent, Answered, ClientLeaves, Ends, Goto, TypeOK, Busy, Scanning, Relaying, Writing, Sending
<1>3. CASE ChildSigint(p)
  <2>1. pc'[p] # "send" \/ pc'[p] = pc[p]
    BY <1>0, <1>3 DEF ChildSigint, At, Goto, TypeOK
  <2>2. /\ pc[p] \in Busy /\ ~disturbed[p]
        /\ UNCHANGED <<host, disturbed, fetched, size, sent>>
    <3>1. pc'[p] \in {"gone", "starved"} \/ pc'[p] = pc[p]
      BY <1>0, <1>3 DEF ChildSigint, At, Goto, TypeOK
    <3>2. pc'[p] = "starved" => pc[p] \in {"send", "starved"}
      BY <1>0, <1>3 DEF ChildSigint, At, Goto, TypeOK
    <3>3. UNCHANGED <<host, disturbed, fetched, size, sent>>
      BY <1>3 DEF ChildSigint, hist, sending
    <3> QED BY <3>1, <3>2, <3>3 DEF Busy, Scanning, Relaying, Writing, Sending
  <2> QED BY <1>a, <2>1, <2>2 DEF AloneOk
<1>4. CASE \/ NoScan(p) \/ ScanStart(p) \/ ScanKept(p) \/ Scan(p) \/ ScanEnd(p) \/ Fetch(p)
           \/ WriteLock(p) \/ Fill(p) \/ WriteUnlock(p) \/ Flush(p) \/ Close(p) \/ ServerEnds(p)
           \/ Starve(p)
  <2>1. /\ pc[p] \in Busy /\ pc'[p] # "send"
    BY <1>0, <1>4 DEF NoScan, ScanStart, ScanKept, Scan, ScanEnd, Fetch, Fetches, WriteLock, Fill, WriteUnlock,
       Flush, Close, ServerEnds, Starve, GoesOn, Answered, Ends, At, Goto, TypeOK, Busy, Scanning,
       Relaying, Writing, Sending
  <2>2. UNCHANGED <<host, disturbed>>
    <3>1. CASE NoScan(p) \/ ScanStart(p) \/ ScanKept(p) \/ Scan(p) \/ ScanEnd(p) \/ Fetch(p)
      BY <1>0, <3>1 DEF NoScan, ScanStart, ScanKept, Scan, ScanEnd, Fetch, Fetches, GoesOn, Answered, Goto,
         TypeOK, Busy, Scanning, Relaying, Writing, Sending, request, hist
    <3>2. CASE WriteLock(p) \/ Fill(p) \/ WriteUnlock(p) \/ Flush(p) \/ Close(p) \/ Starve(p)
      BY <3>2 DEF WriteLock, Fill, WriteUnlock, Flush, Close, Starve
    <3>3. CASE ServerEnds(p)
      BY <1>0, <3>3 DEF ServerEnds, Ends, Goto, TypeOK, Busy, Scanning, Relaying, Writing, Sending
    <3> QED BY <1>4, <3>1, <3>2, <3>3
  <2> QED BY <1>a, <2>1, <2>2
<1>5. CASE Truncate(p)
  <2>1. pc[p] = "open" /\ pc'[p] = "lock" /\ UNCHANGED host
    BY <1>0, <1>5 DEF Truncate, At, Goto, TypeOK
  <2>2. disturbed'[p] = (disturbed[p] \/ (p # p /\ host[p] = host[p]) \/ (p = p /\ Writers(host[p]) # {}))
    BY <1>5, Zenon DEF Truncate
  <2>3. ~disturbed[p] /\ pc[p] \in Busy
    BY <2>1, <2>2 DEF Busy, Relaying
  <2> QED BY <1>a, <2>1, <2>3
<1>6. CASE ReadLock(p) \/ SendPiece(p)
  <2>1. /\ pc[p] \in {"read", "send"} /\ UNCHANGED <<host, disturbed, fetched, file>>
    BY <1>6 DEF ReadLock, SendPiece, SendStep, At, cache
  <2>2. pc[p] \in Busy /\ ~disturbed[p] /\ host[p] \in Host
    BY <1>0, <2>1 DEF Busy, Sending, ProcOk
  <2>3. Writers(host[p]) = {}
    <3>1. p \notin Writers(host[p])
      BY <2>1 DEF Writers, Writing
    <3> QED BY <2>2, <3>1 DEF AloneOk
  <2>4. ASSUME NEW v \in Version, fetched[host[p]] = {v}
        PROVE  /\ file[host[p]] \in Data /\ Len(file[host[p]]) = PageSize[v]
               /\ \A i \in 1..PageSize[v] : file[host[p]][i] = v
               /\ PageSize[v] \in Nat
    <3> DEFINE d == file[host[p]]
    <3>1. d # Absent /\ d = Whole(v)
      BY <2>2, <2>3, <2>4 DEF FileOk
    <3>2. d \in Data
      BY <1>0, <2>2, <3>1 DEF TypeOK
    <3> HIDE DEF d
    <3>3. Len(d) = PageSize[v] /\ (\A i \in 1..PageSize[v] : d[i] = v) /\ PageSize[v] \in Nat
      BY <3>1, <3>2, WholeIs
    <3> QED BY <3>2, <3>3 DEF d
  <2>5. CASE ReadLock(p)
    <3>1. size'[p] = Len(file[host[p]]) /\ sent'[p] = <<>>
      BY <1>0, <2>5 DEF ReadLock, TypeOK
    <3>2. \A v \in Version : fetched[host[p]] = {v} => size'[p] = PageSize[v] /\ PageSize[v] \in Nat
      BY <2>4, <3>1
    <3> QED BY <1>a, <2>1, <2>2, <3>1, <3>2
  <2>6. CASE SendPiece(p)
    <3> DEFINE i == Len(sent[p]) + 1
    <3>1. /\ pc[p] = "send" /\ size'[p] = size[p] /\ size[p] \in Nat /\ sent[p] \in Data
          /\ size[p] - Len(sent[p]) > 0
          /\ sent'[p] = Append(sent[p], file[host[p]][i]) /\ i \in DOMAIN file[host[p]]
      BY <1>0, <2>6 DEF SendPiece, At, Left, TypeOK
    <3>2. Len(sent[p]) \in Nat /\ sent[p] \in Seq(Version \cup {Hole})
      BY <3>1 DEF Data
    <3>3. ASSUME NEW v \in Version, fetched[host[p]] = {v}
          PROVE  /\ size[p] = PageSize[v] /\ Len(sent'[p]) <= size[p]
                 /\ \A k \in 1..Len(sent'[p]) : sent'[p][k] = v
      <4>1. size[p] = PageSize[v] /\ \A k \in 1..Len(sent[p]) : sent[p][k] = v
        BY <2>2, <3>1, <3>3 DEF AloneOk
      <4>2. file[host[p]][i] = v
        BY <2>4, <3>1, <3>2, <3>3, <4>1
      <4>3. sent'[p] = Append(sent[p], v) /\ v \in Version \cup {Hole}
        BY <3>1, <4>2
      <4>4. /\ Len(sent'[p]) = Len(sent[p]) + 1
            /\ \A k \in 1..Len(sent'[p]) : sent'[p][k] = IF k = Len(sent[p]) + 1 THEN v ELSE sent[p][k]
        BY <3>2, <4>3
      <4> QED BY <3>1, <3>2, <4>1, <4>4
    <3> QED BY <1>a, <2>1, <2>2, <3>1, <3>3
  <2> QED BY <1>6, <2>5, <2>6
<1> QED BY <1>1, <1>2, <1>3, <1>4, <1>5, <1>6 DEF Acts, Ask, Step

(* ------------------------------ the whole ----------------------------- *)

LEMMA InvInit == Init => Inv
<1> SUFFICES ASSUME Init PROVE Inv
  OBVIOUS
<1>1. PICK names \in SUBSET Host, pages \in [Host -> 1..MaxPage], bounds \in Budget :
         Start(names, pages, bounds)
  BY DEF Init
<1>2. \A p \in Proc : LateOk(p) /\ ScanOk(p) /\ AloneOk(p)
  BY <1>1 DEF Start, LateOk, ScanOk, AloneOk, Busy, Scanning, Relaying, Writing, Sending
<1>3. \A h \in Host : FileOk(h)
  <2>1. \A h \in Host : Writers(h) = {} /\ fetched[h] = {}
    BY <1>1 DEF Start, Writers, Writing
  <2> QED BY <2>1 DEF FileOk
<1> QED BY <1>2, <1>3, TypeInit DEF Inv

LEMMA InvStep == Inv /\ [Next]_vars => Inv'
<1> SUFFICES ASSUME Inv, [Next]_vars PROVE Inv'
  OBVIOUS
<1>1. TypeInv /\ TypeInv'
  BY TypeStep DEF Inv
<1>2. ASSUME NEW p \in Proc, Acts(p)
      PROVE  /\ \A q \in Proc : LateOk(q)' /\ ScanOk(q)' /\ AloneOk(q)'
             /\ \A h \in Host : FileOk(h)'
  <2>1. LateOk(p)' /\ ScanOk(p)' /\ AloneOk(p)'
    BY <1>1, <1>2, LateStep, OwnScanOk, OwnAloneOk DEF Inv
  <2>2. ASSUME NEW q \in Proc, p # q PROVE LateOk(q)' /\ ScanOk(q)' /\ AloneOk(q)'
    <3>1. ScanOk(q)' /\ AloneOk(q)'
      BY <1>1, <1>2, <2>2, OthersScanOk, OthersAloneOk DEF Inv
    <3>2. Same(q)
      BY <1>1, <1>2, <2>2, ActsAlone DEF TypeInv
    <3>3. LateOk(q)'
      BY <3>2 DEF Inv, LateOk, Same
    <3> QED BY <3>1, <3>3
  <2>3. \A h \in Host : FileOk(h)'
    BY <1>1, <1>2, FileStep DEF Inv
  <2> QED BY <2>1, <2>2, <2>3
<1>3. ASSUME UNCHANGED vars \/ Interrupt \/ Parent \/ \E h \in Host : Expire(h) \/ PageChanges(h)
      PROVE  /\ \A q \in Proc : LateOk(q)' /\ ScanOk(q)' /\ AloneOk(q)'
             /\ \A h \in Host : FileOk(h)'
  <2>1. UNCHANGED <<pc, request, relaying, sending, file, list, hist>>
    BY <1>3 DEF vars, Interrupt, Parent, ParentStops, ParentEnds, Expire, PageChanges, cache
  <2>2. \A h : Writers(h)' = Writers(h)
    BY <2>1 DEF Writers, request
  <2>3. \A q \in Proc : LateOk(q)' /\ ScanOk(q)' /\ AloneOk(q)'
    BY <2>1, <2>2 DEF Inv, LateOk, ScanOk, AloneOk, request, relaying, sending, list, hist
  <2>4. \A h \in Host : FileOk(h)'
    BY <2>1, <2>2, SameFile DEF Inv, relaying, hist
  <2> QED BY <2>3, <2>4
<1> QED BY <1>1, <1>2, <1>3 DEF Inv, Next, Acts

\* A child whose handler has run sends at most one more page.
THEOREM OneMorePage == Spec => []OnePageAfterSigint
<1>1. Inv => OnePageAfterSigint
  BY DEF Inv, LateOk, OnePageAfterSigint
<1> QED BY <1>1, InvInit, InvStep, PTL DEF Spec

\* A blocked host is relayed only by a process whose scan of the blocklist met
\* another one.
THEOREM BlockedAloneHolds == Spec => []BlockedAlone
<1>1. Inv => BlockedAlone
  BY DEF Inv, ScanOk, BlockedAlone
<1> QED BY <1>1, InvInit, InvStep, PTL DEF Spec

\* However many relays of one version of a page have met, the last of them to
\* close the cache file leaves the whole page in it.
THEOREM RestHolds == Spec => []RestIsWhole
<1>1. Inv => RestIsWhole
  BY DEF Inv, FileOk, RestIsWhole
<1> QED BY <1>1, InvInit, InvStep, PTL DEF Spec

\* A request that no other relay of its page met is answered with all of it.
THEOREM AloneHolds == Spec => []AloneIsWhole
<1>1. ASSUME Inv PROVE AloneIsWhole
  <2> SUFFICES ASSUME NEW p \in Proc, NEW v \in Version, pc[p] = "send", Left(p) = 0,
                      ~disturbed[p], fetched[host[p]] = {v}
               PROVE  sent[p] = Whole(v)
    BY DEF AloneIsWhole, At
  <2>1. TypeOK /\ AloneOk(p)
    BY <1>1 DEF Inv, TypeInv
  <2>2. /\ size[p] = PageSize[v] /\ \A i \in 1..Len(sent[p]) : sent[p][i] = v
    BY <2>1 DEF AloneOk, Busy, Sending
  <2>3. sent[p] \in Data /\ size[p] \in Nat
    BY <2>1 DEF TypeOK
  <2>4. Len(sent[p]) = PageSize[v]
    BY <2>2, <2>3, DataIs DEF Left
  <2>5. \A i \in 1..PageSize[v] : i \in DOMAIN sent[p] /\ sent[p][i] = v
    BY <2>2, <2>3, <2>4, DataIs
  <2> DEFINE d == sent[p]
  <2>6. /\ d \in Data /\ Len(d) <= PageSize[v]
        /\ \A i \in 1..PageSize[v] : i \in DOMAIN d /\ d[i] = v
    BY <2>2, <2>3, <2>4, <2>5
  <2> HIDE DEF d
  <2>7. d = Whole(v)
    BY <2>6, WholeIs
  <2> QED BY <2>7 DEF d
<1> QED BY <1>1, InvInit, InvStep, PTL DEF Spec
=============================================================================
