-------------------------- MODULE HttpServer_proofs --------------------------
(***************************************************************************)
(* Safety of HttpServer for any number of connections, any site, any       *)
(* bound on open files and any number of signals, requests and clients     *)
(* that leave.                                                             *)
(***************************************************************************)
EXTENDS HttpServer, FiniteSetTheorems, TLAPS

(* ------------------------------ operators ----------------------------- *)

\* A request that is not refused has a line that can be parsed, a name, and
\* a Connection that is not NULL.
LEMMA Accepted ==
  ASSUME NEW r \in Request \cup {Malformed}, Refusal(r) = 0
  PROVE  r \in Request /\ r # Malformed /\ r.uri \in Page /\ Asked(r) \in Connections
<1>1. r # Malformed
  BY DEF Refusal
<1>2. r \in Request
  BY <1>1
<1>3. r.version \in {"1.1", "1.0"}
  BY <1>1, <1>2 DEF Refusal, Request
<1> QED BY <1>1, <1>2, <1>3 DEF Request, Asked, Connections

LEMMA RefusalType ==
  ASSUME NEW r \in Request \cup {Malformed}
  PROVE  /\ Refusal(r) \in {0, 400, 403, 405, 505}
         /\ r # Malformed => Asked(r) \in Connections \cup {"null"}
         /\ Refusal(r) # 0 => RefusedWith(r) \in Connections \cup {"null"}
         /\ UriOf(r) \in Page \cup {NoRequest}
<1>1. Refusal(r) \in {0, 400, 403, 405, 505}
  BY DEF Refusal
<1>2. ASSUME r # Malformed PROVE Asked(r) \in Connections \cup {"null"}
  BY <1>2 DEF Asked, Request, Connections
<1>3. ASSUME Refusal(r) # 0 PROVE RefusedWith(r) \in Connections \cup {"null"}
  <2>1. CASE Refusal(r) = 405
    <3>1. r # Malformed
      BY <2>1 DEF Refusal
    <3> QED BY <2>1, <3>1, <1>2 DEF RefusedWith
  <2>2. CASE Refusal(r) # 405
    BY <2>2 DEF RefusedWith, Connections
  <2> QED BY <2>1, <2>2
<1>4. UriOf(r) \in Page \cup {NoRequest}
  BY DEF UriOf, Request
<1> QED BY <1>1, <1>2, <1>3, <1>4

\* A set of positions that is not empty has a first one: the sets of the
\* positions up to each of them are ordered by inclusion.
LEMMA SmallestOf ==
  ASSUME NEW n \in Nat, NEW T, T \subseteq 1..n, T # {}
  PROVE  \E i \in T : \A j \in T : i <= j
<1> DEFINE S == 1..n
           upto == {1..i : i \in T}
<1>1. IsWellFoundedOn(StrictSubsetOrdering(S), SUBSET S)
  <2>1. IsFiniteSet(S)
    BY FS_Interval
  <2> HIDE DEF S
  <2>2. FiniteSubsetsOf(S) = SUBSET S
    BY <2>1, FS_FiniteSubsetsOfFinite
  <2> QED BY <2>2, FS_StrictSubsetOrderingWellFounded
<1>2. upto \subseteq SUBSET S /\ upto # {}
  <2>1. \A i \in T : 1..i \subseteq S
    OBVIOUS
  <2> HIDE DEF S
  <2>2. upto \subseteq SUBSET S
    BY <2>1
  <2>3. \A i \in T : 1..i \in upto
    OBVIOUS
  <2> QED BY <2>2, <2>3
<1>3. PICK x \in upto : \A y \in upto : ~(<<y, x>> \in StrictSubsetOrdering(S))
  <2> HIDE DEF upto, S
  <2> QED BY <1>1, <1>2, WFMin
<1>4. PICK i \in T : x = 1..i
  OBVIOUS
<1>5. ASSUME NEW j \in T PROVE i <= j
  <2>1. 1..j \in upto /\ 1..j \subseteq S /\ x \subseteq S
    BY <1>2
  <2>2. ~(1..j \subseteq 1..i /\ 1..j # 1..i)
    BY <1>3, <1>4, <2>1 DEF StrictSubsetOrdering
  <2>3. i \in Nat /\ j \in Nat /\ (i > j => i \in 1..i /\ i \notin 1..j)
    OBVIOUS
  <2> QED BY <2>2, <2>3
<1> QED BY <1>5

\* What is read at once is a request, or a malformed one.
LEMMA MergedType ==
  ASSUME NEW q \in Seq(Request \cup {Malformed}), q # <<>>
  PROVE  Merged(q) \subseteq Request \cup {Malformed}
<1> DEFINE named == {i \in 1..Len(q) : q[i] # Malformed /\ q[i].connection # "none"}
           first == CHOOSE i \in named : \A j \in named : i <= j
<1>1. Head(q) \in Request \cup {Malformed}
  OBVIOUS
<1>2. CASE Head(q) = Malformed \/ Len(q) = 1
  BY <1>1, <1>2 DEF Merged
<1>3. CASE Head(q) \in Request /\ Len(q) # 1 /\ named # {}
  <2>1. \E i \in named : \A j \in named : i <= j
    <3>1. Len(q) \in Nat /\ named \subseteq 1..Len(q)
      OBVIOUS
    <3> HIDE DEF named
    <3> QED BY <1>3, <3>1, SmallestOf
  <2>2. first \in named
    BY <2>1
  <2>3. q[first] \in Request
    BY <2>2
  <2>4. [Head(q) EXCEPT !.connection = q[first].connection] \in Request
    BY <1>3, <2>3 DEF Request
  <2>5. Merged(q) \subseteq {Head(q), [Head(q) EXCEPT !.connection = q[first].connection]}
    BY <1>3 DEF Merged
  <2> QED BY <1>3, <2>4, <2>5
<1>4. CASE Head(q) \in Request /\ Len(q) # 1 /\ named = {}
  <2>1. \A x \in {"none", "other"} : [Head(q) EXCEPT !.connection = x] \in Request
    BY <1>4 DEF Request, Connections
  <2>2. Merged(q) \subseteq {Head(q)} \cup {[Head(q) EXCEPT !.connection = x] : x \in {"none", "other"}}
    BY <1>4 DEF Merged
  <2> QED BY <1>4, <2>1, <2>2
<1> QED BY <1>1, <1>2, <1>3, <1>4

(* -------------------------------- types ------------------------------- *)

\* What is parsed is a request or a malformed one, and what is served is one
\* that was not refused.
ServedAreGood ==
  \A p \in Conn :
    /\ pc[p] = "parse" => req[p] \in Request \cup {Malformed}
    /\ pc[p] \in {"index", "open", "size", "read", "send"} =>
         req[p] \in Request \cup {Malformed} /\ Refusal(req[p]) = 0

\* Number 3 is that of an open file: what the handler closes was open.
ThreeIsOpen == \A p \in Conn : three[p] # "free" => fds[p] > 0

TypeInv == TypeOK /\ ServedAreGood /\ ThreeIsOpen

LEMMA TypeInit == Init => TypeInv
<1>1. Init => \E bounds \in Bounds : Start(bounds)
  BY DEF Init
<1>2. ASSUME NEW bounds \in Bounds, Start(bounds) PROVE TypeInv
  <2>1. <<>> \in Seq(Request \cup {Malformed}) /\ NoAnswer \in Answer
    BY DEF NoAnswer, Answer
  <2>2. TypeOK
    <3>1. inq \in [Conn -> Seq(Request \cup {Malformed})] /\ last \in [Conn -> Answer]
      <4> HIDE DEF NoAnswer, Request, Answer
      <4> QED BY <1>2, <2>1 DEF Start
    <3>2. 0 \in 0..MaxFiles /\ 0 \in 0..MaxFiles + 1 /\ 0 \in Nat /\ 0 \in 0..2
      BY HttpAssumption
    <3>3. /\ fds \in [Conn -> 0..MaxFiles] /\ nread \in [Conn -> Nat]
          /\ served \in [Conn -> 0..MaxFiles + 1] /\ late \in [Conn -> 0..2]
      BY <1>2, <3>2 DEF Start
    <3>4. may \in Bounds
      BY <1>2 DEF Start
    <3> QED BY <1>2, <3>1, <3>3, <3>4 DEF Start, TypeOK, Unborn
  <2>3. ServedAreGood /\ ThreeIsOpen
    BY <1>2 DEF Start, ServedAreGood, ThreeIsOpen
  <2> QED BY <2>2, <2>3 DEF TypeInv
<1> QED BY <1>1, <1>2

\* The locals of service_request keep their types when it returns.
LEMMA LocalsType ==
  ASSUME TypeOK, NEW p \in Conn, RequestReturns(p)
  PROVE  /\ req' \in [Conn -> Request \cup {Malformed, NoRequest}]
         /\ path' \in [Conn -> {"own", "html", "htm"}]
         /\ nread' \in [Conn -> Nat] /\ whole' \in [Conn -> BOOLEAN]
         /\ closed' \in [Conn -> BOOLEAN]
         /\ conn' \in [Conn -> Connections \cup {"none"}]
BY DEF TypeOK, RequestReturns

\* A child that ends leaves nothing that is not of its type.
LEMMA EndsType ==
  ASSUME TypeInv, NEW p \in Conn, Ends(p), last' \in [Conn -> Answer],
         UNCHANGED <<main, check, may, served, late>>
  PROVE  TypeInv'
<1>1. TypeOK /\ RequestReturns(p)
  BY DEF TypeInv, Ends
<1>2. TypeOK'
  <2>1. <<>> \in Seq(Request \cup {Malformed})
    OBVIOUS
  <2>2. /\ pc' = [pc EXCEPT ![p] = "gone"] /\ inq' = [inq EXCEPT ![p] = <<>>]
        /\ sopen' = [sopen EXCEPT ![p] = FALSE] /\ sig' = [sig EXCEPT ![p] = FALSE]
        /\ fds' = [fds EXCEPT ![p] = 0] /\ three' = [three EXCEPT ![p] = "free"]
    BY DEF Ends, Goto
  <2>3. /\ sopen' \in [Conn -> BOOLEAN] /\ sig' \in [Conn -> BOOLEAN]
        /\ fds' \in [Conn -> 0..MaxFiles] /\ three' \in [Conn -> {"free", "newest", "older"}]
        /\ inq' \in [Conn -> Seq(Request \cup {Malformed})]
    BY <1>1, <2>1, <2>2, HttpAssumption DEF TypeOK
  <2>4. pc' \in [Conn -> Unborn \cup {"recv", "cut", "parse", "index", "open", "size",
                                      "read", "send", "gone"}]
    BY <1>1, <2>2 DEF TypeOK
  <2> QED BY <1>1, <2>3, <2>4, LocalsType DEF TypeOK, main
<1>3. ServedAreGood' /\ ThreeIsOpen'
  BY DEF TypeInv, TypeOK, ServedAreGood, ThreeIsOpen, Ends, Goto, RequestReturns
<1> QED BY <1>2, <1>3 DEF TypeInv

\* A request that is answered, after which the child goes on.
LEMMA ReturnsType ==
  ASSUME TypeInv, NEW p \in Conn, pc[p] # "unborn", Goto(p, "recv"), RequestReturns(p),
         sopen' \in [Conn -> BOOLEAN], fds' \in [Conn -> 0..MaxFiles],
         three' \in [Conn -> {"free", "newest", "older"}], ThreeIsOpen',
         last' \in [Conn -> Answer], UNCHANGED <<main, check, sig, inq, may, served, late>>
  PROVE  TypeInv'
<1>1. TypeOK /\ pc' = [pc EXCEPT ![p] = "recv"]
  BY DEF TypeInv, Goto
<1>2. pc' \in [Conn -> Unborn \cup {"recv", "cut", "parse", "index", "open", "size",
                                     "read", "send", "gone"}]
  BY <1>1 DEF TypeOK
<1>3. TypeOK'
  BY <1>1, <1>2, LocalsType DEF TypeOK, main
<1>4. ServedAreGood'
  BY <1>1 DEF TypeInv, TypeOK, ServedAreGood, RequestReturns
<1> QED BY <1>3, <1>4 DEF TypeInv

LEMMA ErrorType ==
  ASSUME TypeInv, NEW p \in Conn, pc[p] # "unborn", NEW r \in Request \cup {Malformed},
         NEW status \in {400, 403, 404, 405, 505}, NEW connection \in Connections \cup {"null"},
         Error(p, status, r, connection)
  PROVE  TypeInv'
<1>1. UriOf(r) \in Page \cup {NoRequest}
  BY RefusalType
<1>2. last' \in [Conn -> Answer]
  <2> DEFINE a == [status |-> status, connection |-> connection, whole |-> TRUE, uri |-> UriOf(r)]
  <2>1. last' = [last EXCEPT ![p] = a]
    BY DEF Error, Sends
  <2>2. a \in Answer
    BY <1>1 DEF Answer
  <2> HIDE DEF a
  <2>3. last \in [Conn -> Answer]
    BY DEF TypeInv, TypeOK
  <2> QED BY <2>1, <2>2, <2>3
<1>3. UNCHANGED <<main, check, may, served, late>>
  BY DEF Error
<1>4. CASE Ends(p)
  BY <1>2, <1>3, <1>4, EndsType
<1>5. CASE ~Ends(p)
  <2>1. /\ sopen' = [sopen EXCEPT ![p] = connection # "close"]
        /\ Goto(p, "recv") /\ RequestReturns(p) /\ UNCHANGED <<inq, sig, files>>
    BY <1>5 DEF Error
  <2>2. sopen' \in [Conn -> BOOLEAN] /\ fds' \in [Conn -> 0..MaxFiles]
        /\ three' \in [Conn -> {"free", "newest", "older"}] /\ ThreeIsOpen'
    BY <2>1 DEF TypeInv, TypeOK, ThreeIsOpen, files
  <2> QED BY <1>2, <1>3, <2>1, <2>2, ReturnsType
<1> QED BY <1>4, <1>5

\* A file more is open.
LEMMA OpensType ==
  ASSUME TypeInv, NEW p \in Conn, Opens(p)
  PROVE  /\ fds' \in [Conn -> 0..MaxFiles] /\ three' \in [Conn -> {"free", "newest", "older"}]
         /\ ThreeIsOpen'
BY HttpAssumption DEF TypeInv, TypeOK, ThreeIsOpen, Opens

\* main, and the signals.
LEMMA MainType ==
  ASSUME TypeInv, Main \/ \E p \in Conn : Accept(p)
  PROVE  TypeInv'
<1> USE DEF TypeInv, TypeOK, ServedAreGood, ThreeIsOpen, Unborn
<1>1. CASE MainSigint \/ MainStops \/ MainEnds
  BY <1>1 DEF MainSigint, MainStops, MainEnds, files, reading, serving, hist
<1>2. ASSUME NEW p \in Conn, Fork(p) PROVE TypeInv'
  BY <1>2 DEF Fork, Goto, files, reading, serving, hist
<1>3. ASSUME NEW p \in Conn, Accept(p) PROVE TypeInv'
  BY <1>3 DEF Accept, Goto, files, reading, serving, hist
<1> QED BY <1>1, <1>2, <1>3 DEF Main

LEMMA InterruptType ==
  ASSUME TypeInv, NEW all \in BOOLEAN, Interrupt(all)
  PROVE  TypeInv'
<1>1. /\ may' = [may EXCEPT !.signals = @ - 1] /\ may.signals > 0
      /\ psig' = TRUE /\ sig' = [p \in Conn |-> sig[p] \/ (all /\ Alive(p))]
      /\ UNCHANGED <<ppc, pcheck, pc, check, inq, sopen, files, reading, serving, hist>>
  BY DEF Interrupt
<1>2. may' \in Bounds
  <2>1. may \in Bounds
    BY DEF TypeInv, TypeOK
  <2>2. may.signals - 1 \in Nat
    BY <1>1, <2>1 DEF Bounds
  <2> QED BY <1>1, <2>1, <2>2 DEF Bounds
<1>3. sig' \in [Conn -> BOOLEAN]
  BY <1>1 DEF TypeInv, TypeOK, Alive
<1> QED BY <1>1, <1>2, <1>3 DEF TypeInv, TypeOK, ServedAreGood, ThreeIsOpen, files, reading,
        serving, hist

LEMMA ChildSigintType ==
  ASSUME TypeInv, NEW p \in Conn, ChildSigint(p)
  PROVE  TypeInv'
<1>1. /\ sig' = [sig EXCEPT ![p] = FALSE] /\ check' = [check EXCEPT ![p] = FALSE]
      /\ fds' = [fds EXCEPT ![p] = IF three[p] = "free" THEN @ ELSE @ - 1]
      /\ three' = [three EXCEPT ![p] = "free"]
      /\ UNCHANGED <<main, inq, sopen, nread, serving, may, hist>>
  BY DEF ChildSigint
<1>2. closed' \in [Conn -> BOOLEAN] /\ whole' \in [Conn -> BOOLEAN]
  BY DEF ChildSigint, TypeInv, TypeOK
<1>3. UNCHANGED pc \/ Goto(p, "cut")
  BY DEF ChildSigint
<1>4. fds' \in [Conn -> 0..MaxFiles] /\ three' \in [Conn -> {"free", "newest", "older"}]
      /\ ThreeIsOpen'
  BY <1>1, HttpAssumption DEF TypeInv, TypeOK, ThreeIsOpen
<1>5. TypeOK'
  BY <1>1, <1>2, <1>3, <1>4 DEF TypeInv, TypeOK, Goto, main, serving, hist
<1>6. ServedAreGood'
  BY <1>1, <1>3 DEF TypeInv, TypeOK, ServedAreGood, Goto, serving
<1> QED BY <1>4, <1>5, <1>6 DEF TypeInv

LEMMA ClientsType ==
  ASSUME TypeInv, NEW p \in Conn,
         ClientLeaves(p) \/ \E r \in may.asks : ClientSends(p, r)
  PROVE  TypeInv'
<1>1. CASE ClientLeaves(p)
  <2>1. Ends(p) /\ UNCHANGED <<main, check, may, hist>>
    BY <1>1 DEF ClientLeaves
  <2>2. last' \in [Conn -> Answer]
    BY <2>1 DEF hist, TypeInv, TypeOK
  <2> QED BY <2>1, <2>2, EndsType DEF hist
<1>2. ASSUME NEW r \in may.asks, ClientSends(p, r) PROVE TypeInv'
  <2>1. r \in Request \cup {Malformed}
    BY DEF TypeInv, TypeOK, Bounds
  <2>2. Append(inq[p], r) \in Seq(Request \cup {Malformed})
    <3>1. inq[p] \in Seq(Request \cup {Malformed})
      BY DEF TypeInv, TypeOK
    <3> QED BY <2>1, <3>1
  <2>3. /\ inq' = [inq EXCEPT ![p] = Append(inq[p], r)]
        /\ UNCHANGED <<main, pc, check, sig, sopen, files, reading, serving, may, hist>>
    BY <1>2 DEF ClientSends
  <2>4. inq' \in [Conn -> Seq(Request \cup {Malformed})]
    BY <2>2, <2>3 DEF TypeInv, TypeOK
  <2> QED BY <2>3, <2>4 DEF TypeInv, TypeOK, ServedAreGood, ThreeIsOpen, main, files, reading,
          serving, hist
<1> QED BY <1>1, <1>2

\* The child takes what is in its socket for one request.
LEMMA RecvType ==
  ASSUME TypeInv, NEW p \in Conn, Recv(p)
  PROVE  TypeInv'
<1>1. PICK r \in Merged(inq[p]) :
        /\ req' = [req EXCEPT ![p] = r]
        /\ served' = [served EXCEPT ![p] =
             IF Refusal(r) = 0 /\ Kind[r.uri] # "absent" /\ @ <= MaxFiles THEN @ + 1 ELSE @]
  BY DEF Recv
<1>2. r \in Request \cup {Malformed}
  BY MergedType DEF TypeInv, TypeOK, Recv
<1>3. /\ inq' = [inq EXCEPT ![p] = <<>>] /\ pc' = [pc EXCEPT ![p] = "parse"]
      /\ UNCHANGED <<main, check, sig, sopen, files, reading, path, conn, may, last, late>>
  BY DEF Recv, Goto
<1>4. served' \in [Conn -> 0..MaxFiles + 1]
  BY <1>1, HttpAssumption DEF TypeInv, TypeOK
<1>5. inq' \in [Conn -> Seq(Request \cup {Malformed})]
  <2>1. <<>> \in Seq(Request \cup {Malformed})
    OBVIOUS
  <2> QED BY <1>3, <2>1 DEF TypeInv, TypeOK
<1>6. req' \in [Conn -> Request \cup {Malformed, NoRequest}]
  BY <1>1, <1>2 DEF TypeInv, TypeOK
<1>7. TypeOK' /\ ThreeIsOpen'
  BY <1>3, <1>4, <1>5, <1>6 DEF TypeInv, TypeOK, ThreeIsOpen, main, files, reading
<1>8. ServedAreGood'
  BY <1>1, <1>2, <1>3 DEF TypeInv, TypeOK, ServedAreGood
<1> QED BY <1>7, <1>8 DEF TypeInv

LEMMA RecvFailsType ==
  ASSUME TypeInv, NEW p \in Conn, RecvFails(p)
  PROVE  TypeInv'
<1>1. Ends(p) /\ UNCHANGED <<main, check, may, served, late>>
  BY DEF RecvFails
<1>2. last' \in [Conn -> Answer]
  <2> DEFINE a == [status |-> 408, connection |-> "close", whole |-> TRUE, uri |-> NoRequest]
  <2>1. a \in Answer
    BY DEF Answer, Connections
  <2>2. last' = [last EXCEPT ![p] = a] \/ last' = last
    BY DEF RecvFails, Sends
  <2>3. last \in [Conn -> Answer]
    BY DEF TypeInv, TypeOK
  <2> HIDE DEF a
  <2> QED BY <2>1, <2>2, <2>3
<1> QED BY <1>1, <1>2, EndsType

LEMMA RefuseType ==
  ASSUME TypeInv, NEW p \in Conn, Refuse(p)
  PROVE  TypeInv'
<1>1. req[p] \in Request \cup {Malformed} /\ pc[p] = "parse" /\ Refusal(req[p]) # 0
  BY DEF TypeInv, ServedAreGood, Refuse, At
<1>2. /\ Refusal(req[p]) \in {400, 403, 404, 405, 505}
      /\ RefusedWith(req[p]) \in Connections \cup {"null"}
  BY <1>1, RefusalType
<1>3. Error(p, Refusal(req[p]), req[p], RefusedWith(req[p]))
  BY DEF Refuse
<1> QED BY <1>1, <1>2, <1>3, ErrorType

LEMMA NotFoundType ==
  ASSUME TypeInv, NEW p \in Conn, NotFound(p)
  PROVE  TypeInv'
<1>1. req[p] \in Request \cup {Malformed} /\ pc[p] = "open" /\ Refusal(req[p]) = 0
  BY DEF TypeInv, ServedAreGood, NotFound, At
<1>2. Asked(req[p]) \in Connections \cup {"null"} /\ 404 \in {400, 403, 404, 405, 505}
  BY <1>1, Accepted
<1>3. Error(p, 404, req[p], Asked(req[p]))
  BY DEF NotFound
<1> QED BY <1>1, <1>2, <1>3, ErrorType

LEMMA NoExtensionType ==
  ASSUME TypeInv, NEW p \in Conn, NoExtension(p)
  PROVE  TypeInv'
<1>1. req[p] \in Request /\ pc[p] = "open" /\ Asked(req[p]) \in Connections /\ req[p].uri \in Page
  BY Accepted DEF TypeInv, ServedAreGood, NoExtension, At
<1>2. last' \in [Conn -> Answer]
  <2> DEFINE a == [status |-> 404, connection |-> Asked(req[p]), whole |-> TRUE,
                   uri |-> req[p].uri]
  <2>1. last' = [last EXCEPT ![p] = a]
    BY DEF NoExtension, Sends
  <2>2. a \in Answer
    BY <1>1 DEF Answer
  <2>3. last \in [Conn -> Answer]
    BY DEF TypeInv, TypeOK
  <2> HIDE DEF a
  <2> QED BY <2>1, <2>2, <2>3
<1>3. sopen' \in [Conn -> BOOLEAN]
  BY DEF NoExtension, TypeInv, TypeOK
<1>4. /\ fds' \in [Conn -> 0..MaxFiles] /\ three' \in [Conn -> {"free", "newest", "older"}]
      /\ ThreeIsOpen'
  BY OpensType DEF NoExtension
<1>5. /\ Goto(p, "recv") /\ RequestReturns(p)
      /\ UNCHANGED <<main, check, sig, inq, may, served, late>>
  BY DEF NoExtension
<1> QED BY <1>1, <1>2, <1>3, <1>4, <1>5, ReturnsType

LEMMA SendType ==
  ASSUME TypeInv, NEW p \in Conn, Send(p)
  PROVE  TypeInv'
<1>1. req[p] \in Request /\ pc[p] = "send" /\ req[p].uri \in Page
  BY Accepted DEF TypeInv, ServedAreGood, Send, At
<1>2. last' \in [Conn -> Answer]
  <2> DEFINE good == whole[p] /\ nread[p] = Pieces[req[p].uri]
             a == [status |-> 200, connection |-> conn[p], whole |-> good, uri |-> req[p].uri]
  <2>1. last' = [last EXCEPT ![p] = a]
    BY DEF Send, Sends
  <2>2. conn[p] \in Connections \cup {"null", "none"} /\ good \in BOOLEAN
    BY DEF TypeInv, TypeOK
  <2>3. a \in Answer
    <3> HIDE DEF good
    <3> QED BY <1>1, <2>2 DEF Answer
  <2>4. last \in [Conn -> Answer]
    BY DEF TypeInv, TypeOK
  <2> HIDE DEF a
  <2> QED BY <2>1, <2>3, <2>4
<1>3. UNCHANGED <<main, check, may, served, late>>
  BY DEF Send
<1>4. CASE Ends(p)
  BY <1>2, <1>3, <1>4, EndsType
<1>5. CASE ~Ends(p)
  <2>1. Goto(p, "recv") /\ RequestReturns(p) /\ UNCHANGED <<inq, sig, sopen, files>>
    BY <1>5 DEF Send
  <2>2. sopen' \in [Conn -> BOOLEAN] /\ fds' \in [Conn -> 0..MaxFiles]
        /\ three' \in [Conn -> {"free", "newest", "older"}] /\ ThreeIsOpen'
    BY <2>1 DEF TypeInv, TypeOK, ThreeIsOpen, files
  <2> QED BY <1>1, <1>2, <1>3, <2>1, <2>2, ReturnsType
<1> QED BY <1>4, <1>5

\* The steps that lead to the page and read it.
LEMMA ServingType ==
  ASSUME TypeInv, NEW p \in Conn,
         Serve(p) \/ Index(p) \/ Open(p) \/ Size(p) \/ NoSize(p) \/ Read(p) \/ Header(p)
  PROVE  TypeInv'
<1> USE DEF TypeInv
<1>1. CASE Serve(p)
  BY <1>1 DEF TypeOK, ServedAreGood, ThreeIsOpen, Serve, At, Goto, main, files, reading, serving,
              hist
<1>2. CASE Index(p)
  <2>1. /\ fds' \in [Conn -> 0..MaxFiles] /\ three' \in [Conn -> {"free", "newest", "older"}]
        /\ ThreeIsOpen'
    <3>1. CASE Opens(p)
      BY <3>1, OpensType
    <3>2. CASE UNCHANGED files
      BY <3>2 DEF files, TypeOK, ThreeIsOpen
    <3> QED BY <1>2, <3>1, <3>2 DEF Index
  <2>2. path' \in [Conn -> {"own", "html", "htm"}]
    BY <1>2 DEF Index, TypeOK
  <2> QED BY <1>2, <2>1, <2>2 DEF TypeOK, ServedAreGood, Index, At, Goto, main, reading, hist
<1>3. CASE Open(p)
  <2>1. /\ fds' \in [Conn -> 0..MaxFiles] /\ three' \in [Conn -> {"free", "newest", "older"}]
        /\ ThreeIsOpen'
    BY <1>3, OpensType DEF Open
  <2> QED BY <1>3, <2>1 DEF TypeOK, ServedAreGood, Open, At, Goto, main, reading, serving, hist
<1>4. CASE Size(p)
  BY <1>4 DEF TypeOK, ServedAreGood, ThreeIsOpen, Size, At, Goto, main, files, serving, hist
<1>5. CASE NoSize(p)
  <2>1. Ends(p) /\ UNCHANGED <<main, check, may, hist>>
    BY <1>5 DEF NoSize
  <2>2. last' \in [Conn -> Answer]
    BY <2>1 DEF hist, TypeOK
  <2> QED BY <2>1, <2>2, EndsType DEF hist
<1>6. CASE Read(p)
  BY <1>6 DEF TypeOK, ServedAreGood, ThreeIsOpen, Read, At, main, files, serving, hist
<1>7. CASE Header(p)
  <2>1. Asked(req[p]) \in Connections /\ "close" \in Connections
    BY <1>7, Accepted DEF ServedAreGood, Header, At, Connections
  <2>2. conn' \in [Conn -> Connections \cup {"none"}]
    BY <1>7, <2>1 DEF Header, TypeOK
  <2>3. late' \in [Conn -> 0..2]
    BY <1>7 DEF Header, TypeOK
  <2> QED BY <1>7, <2>2, <2>3 DEF TypeOK, ServedAreGood, ThreeIsOpen, Header, At, Goto, main,
          files, reading
<1> QED BY <1>1, <1>2, <1>3, <1>4, <1>5, <1>6, <1>7

LEMMA TypeStep == TypeInv /\ [Next]_vars => TypeInv'
<1> SUFFICES ASSUME TypeInv, [Next]_vars PROVE TypeInv'
  OBVIOUS
<1>1. CASE UNCHANGED vars
  BY <1>1 DEF TypeInv, TypeOK, ServedAreGood, ThreeIsOpen, vars, main, files, reading, serving,
              hist
<1>2. CASE Main \/ \E p \in Conn : Accept(p)
  BY <1>2, MainType
<1>3. ASSUME NEW all \in BOOLEAN, Interrupt(all) PROVE TypeInv'
  BY <1>3, InterruptType
<1>4. ASSUME NEW p \in Conn, Step(p) PROVE TypeInv'
  BY <1>4, RecvType, RecvFailsType, RefuseType, NotFoundType, NoExtensionType, SendType,
     ServingType DEF Step
<1>5. ASSUME NEW p \in Conn, ChildSigint(p) PROVE TypeInv'
  BY <1>5, ChildSigintType
<1>6. ASSUME NEW p \in Conn, ClientLeaves(p) \/ \E r \in may.asks : ClientSends(p, r)
      PROVE  TypeInv'
  BY <1>6, ClientsType
<1> QED BY <1>1, <1>2, <1>3, <1>4, <1>5, <1>6 DEF Next

\* Every variable of the web server keeps its type: no child has more files
\* open than it may, and no page is answered with the NULL that parse_request
\* makes of a version it does not know.
THEOREM TypesHold == Spec => []TypeOK
<1>1. TypeInv => TypeOK
  BY DEF TypeInv
<1> QED BY <1>1, TypeInit, TypeStep, PTL DEF Spec

(* ------------------- the page, the handler and the end ---------------- *)

\* What is said of the answer that p sent last.
LastOk(p) ==
  /\ (last[p].status = 200 /\ ~last[p].whole) => ~check[p]
  /\ (last[p].status = 404 /\ Kind[last[p].uri] \in {"file", "html", "htm"})
       => 2 * served[p] > MaxFiles

\* A child that has not begun has main's first check, and has sent nothing.
BegunOk(p) == pc[p] \in Unborn => check[p] /\ last[p] = NoAnswer

\* A page is spoilt while it is read or sent only by the handler, and what
\* is in send has all its reads.
PageOk(p) ==
  /\ (~whole[p] \/ closed[p]) => ~check[p]
  /\ pc[p] = "read" => nread[p] <= Pieces[req[p].uri]
  /\ pc[p] = "send" => nread[p] = Pieces[req[p].uri]

\* After the handler a page is made once: it carries "close", and then the
\* child is gone.
LateOk(p) ==
  /\ late[p] <= 1
  /\ late[p] > 0 => ~check[p] /\ (pc[p] = "gone" \/ (pc[p] = "send" /\ conn[p] = "close"))

\* After an answer that says "close" the child is gone, or has only a recv of
\* the socket it has closed before it.
CloseOk(p) ==
  last[p].connection = "close" =>
    pc[p] = "gone" \/ (pc[p] \in {"recv", "cut"} /\ ~sopen[p])

\* How many files the request being served has yet to open, at most.
ToOpen(p) ==
  IF pc[p] \notin {"parse", "index", "open"} \/ Refusal(req[p]) # 0 \/ Kind[req[p].uri] = "absent"
  THEN 0 ELSE IF pc[p] = "open" THEN 1 ELSE 2
\* Two files for each request at most; and index.htm was taken for the name of
\* a directory that has an index.html only when no descriptor was left.
FilesOk(p) ==
  /\ 2 * served[p] > MaxFiles + 1 \/ fds[p] + ToOpen(p) <= 2 * served[p]
  /\ pc[p] \in Unborn \cup {"recv", "parse"} => path[p] = "own"
  /\ pc[p] = "index" \/ (pc[p] = "open" /\ path[p] # "own")
       => Kind[req[p].uri] \in {"html", "htm"}
  /\ (pc[p] = "open" /\ Kind[req[p].uri] \in {"html", "htm"} /\ path[p] # Kind[req[p].uri])
       => 2 * served[p] > MaxFiles

ChildOk(p) == LastOk(p) /\ BegunOk(p) /\ PageOk(p) /\ LateOk(p) /\ CloseOk(p) /\ FilesOk(p)
Inv == TypeInv /\ \A p \in Conn : ChildOk(p)

LEMMA InvInit == Init => Inv
<1> SUFFICES ASSUME Init PROVE Inv
  OBVIOUS
<1>1. PICK bounds \in Bounds : Start(bounds)
  BY DEF Init
<1>2. ASSUME NEW p \in Conn PROVE ChildOk(p)
  <2>1. /\ pc[p] = "unborn" /\ check[p] = TRUE /\ whole[p] = TRUE /\ closed[p] = FALSE
        /\ last[p] = NoAnswer /\ served[p] = 0 /\ late[p] = 0 /\ fds[p] = 0 /\ path[p] = "own"
    BY <1>1 DEF Start
  <2>2. LastOk(p) /\ BegunOk(p) /\ CloseOk(p)
    BY <2>1 DEF LastOk, BegunOk, CloseOk, NoAnswer
  <2>3. PageOk(p) /\ LateOk(p) /\ FilesOk(p)
    BY <2>1 DEF PageOk, LateOk, FilesOk, ToOpen
  <2> QED BY <2>2, <2>3 DEF ChildOk
<1> QED BY <1>2, TypeInit DEF Inv

\* What nothing of this part of the state is changed for stays as it is.
Same(q) ==
  /\ pc'[q] = pc[q] /\ check'[q] = check[q] /\ sopen'[q] = sopen[q] /\ req'[q] = req[q]
  /\ path'[q] = path[q] /\ fds'[q] = fds[q] /\ nread'[q] = nread[q] /\ whole'[q] = whole[q]
  /\ closed'[q] = closed[q] /\ conn'[q] = conn[q] /\ last'[q] = last[q]
  /\ served'[q] = served[q] /\ late'[q] = late[q]

LEMMA SameOk ==
  ASSUME NEW q \in Conn, ChildOk(q), Same(q)
  PROVE  ChildOk(q)'
BY DEF Same, ChildOk, LastOk, BegunOk, PageOk, LateOk, CloseOk, FilesOk, ToOpen, NoAnswer

\* The processes share nothing but the connection's accept: what one of them
\* does is seen by no other.
Own(p) == Accept(p) \/ Fork(p) \/ Step(p) \/ ChildSigint(p) \/ ClientLeaves(p)
          \/ \E r \in may.asks : ClientSends(p, r)

LEMMA ErrorAlone ==
  ASSUME NEW p \in Conn, NEW q \in Conn, p # q, TypeOK, NEW status, NEW r, NEW connection,
         Error(p, status, r, connection)
  PROVE  Same(q)
BY DEF Same, TypeOK, Error, Ends, Sends, Goto, RequestReturns, files

LEMMA EndsAlone ==
  ASSUME NEW p \in Conn, NEW q \in Conn, p # q, TypeOK
  PROVE  /\ RequestReturns(p) => /\ req'[q] = req[q] /\ path'[q] = path[q] /\ conn'[q] = conn[q]
                                 /\ nread'[q] = nread[q] /\ whole'[q] = whole[q]
                                 /\ closed'[q] = closed[q]
         /\ Ends(p) => pc'[q] = pc[q] /\ sopen'[q] = sopen[q] /\ fds'[q] = fds[q]
         /\ \A status, connection, good, uri :
              Sends(p, status, connection, good, uri) => last'[q] = last[q]
<1>1. ASSUME RequestReturns(p)
      PROVE  /\ req'[q] = req[q] /\ path'[q] = path[q] /\ conn'[q] = conn[q]
             /\ nread'[q] = nread[q] /\ whole'[q] = whole[q] /\ closed'[q] = closed[q]
  <2>1. req'[q] = req[q] /\ path'[q] = path[q]
    BY <1>1 DEF RequestReturns, TypeOK
  <2>2. conn'[q] = conn[q] /\ nread'[q] = nread[q]
    BY <1>1 DEF RequestReturns, TypeOK
  <2>3. whole'[q] = whole[q] /\ closed'[q] = closed[q]
    BY <1>1 DEF RequestReturns, TypeOK
  <2> QED BY <2>1, <2>2, <2>3
<1>2. Ends(p) => pc'[q] = pc[q] /\ sopen'[q] = sopen[q] /\ fds'[q] = fds[q]
  BY DEF Ends, Goto, TypeOK
<1>3. \A status, connection, good, uri :
        Sends(p, status, connection, good, uri) => last'[q] = last[q]
  BY DEF Sends, TypeOK
<1> QED BY <1>1, <1>2, <1>3

LEMMA OwnAlone ==
  ASSUME NEW p \in Conn, NEW q \in Conn, p # q, TypeOK, Own(p)
  PROVE  Same(q)
<1>1. CASE Accept(p) \/ Fork(p) \/ Serve(p) \/ Size(p) \/ Read(p) \/ Header(p)
  BY <1>1 DEF Accept, Fork, Serve, Size, Read, Header, TypeOK, Same, Goto, files, reading, serving,
     hist
<1>2. CASE Recv(p)
  BY <1>2 DEF Recv, TypeOK, Same, Goto, files, reading, serving, hist
<1>3. CASE RecvFails(p) \/ NoSize(p) \/ ClientLeaves(p)
  <2> USE DEF files, hist
  <2>1. CASE RecvFails(p)
    <3>1. Ends(p) /\ RequestReturns(p) /\ UNCHANGED <<check, served, late>> /\ last'[q] = last[q]
      BY <2>1, EndsAlone DEF RecvFails, Ends
    <3> QED BY <3>1, EndsAlone DEF Same
  <2>2. CASE NoSize(p)
    <3>1. Ends(p) /\ RequestReturns(p) /\ UNCHANGED <<check, hist>>
      BY <2>2 DEF NoSize, Ends
    <3> QED BY <3>1, EndsAlone DEF Same
  <2>3. CASE ClientLeaves(p)
    <3>1. Ends(p) /\ RequestReturns(p) /\ UNCHANGED <<check, hist>>
      BY <2>3 DEF ClientLeaves, Ends
    <3> QED BY <3>1, EndsAlone DEF Same
  <2> QED BY <1>3, <2>1, <2>2, <2>3
<1>4. CASE Refuse(p) \/ NotFound(p)
  BY <1>4, ErrorAlone DEF Refuse, NotFound
<1>5. CASE Index(p) \/ Open(p)
  BY <1>5 DEF Index, Open, Opens, TypeOK, Same, Goto, files, reading, serving, hist
<1>6. CASE NoExtension(p)
  <2>1. UNCHANGED <<check, served, late>> /\ RequestReturns(p) /\ last'[q] = last[q]
    BY <1>6, EndsAlone DEF NoExtension
  <2>2. pc'[q] = pc[q] /\ sopen'[q] = sopen[q] /\ fds'[q] = fds[q]
    BY <1>6 DEF NoExtension, Opens, Goto, TypeOK
  <2> QED BY <2>1, <2>2, EndsAlone DEF Same
<1>7. CASE Send(p)
  <2>1. UNCHANGED <<check, served, late>> /\ RequestReturns(p) /\ last'[q] = last[q]
    BY <1>7, EndsAlone DEF Send, Ends
  <2>2. pc'[q] = pc[q] /\ sopen'[q] = sopen[q] /\ fds'[q] = fds[q]
    BY <1>7, EndsAlone DEF Send, Goto, TypeOK, files
  <2> QED BY <2>1, <2>2, EndsAlone DEF Same
<1>8. CASE ChildSigint(p)
  BY <1>8 DEF ChildSigint, TypeOK, Same, Goto, files, reading, serving, hist
<1>9. ASSUME NEW r \in may.asks, ClientSends(p, r) PROVE Same(q)
  BY <1>9 DEF ClientSends, TypeOK, Same, Goto, files, reading, serving, hist
<1> QED BY <1>1, <1>2, <1>3, <1>4, <1>5, <1>6, <1>7, <1>8, <1>9 DEF Own, Step

\* A child that ends.
LEMMA EndsOk ==
  ASSUME Inv, NEW p \in Conn, Ends(p), LastOk(p)',
         UNCHANGED <<check, served, late>>
  PROVE  ChildOk(p)'
<1>1. ChildOk(p) /\ TypeOK
  BY DEF Inv, TypeInv
<1>2. /\ pc'[p] = "gone" /\ whole'[p] = TRUE /\ closed'[p] = FALSE /\ fds'[p] = 0
  BY <1>1 DEF Ends, Goto, RequestReturns, TypeOK
<1>3. BegunOk(p)' /\ PageOk(p)' /\ LateOk(p)' /\ CloseOk(p)'
  BY <1>1, <1>2 DEF ChildOk, BegunOk, PageOk, LateOk, CloseOk, Unborn
<1>4. FilesOk(p)'
  BY <1>1, <1>2 DEF FilesOk, ToOpen, TypeOK, Unborn
<1> QED BY <1>3, <1>4 DEF ChildOk

\* A child that goes back to recv after an answer.
LEMMA ReturnsOk ==
  ASSUME Inv, NEW p \in Conn, Goto(p, "recv"), RequestReturns(p), LastOk(p)',
         pc[p] \in {"parse", "open", "send"}, late[p] = 0 \/ pc[p] # "send",
         last'[p].connection = "close" => ~sopen'[p],
         fds'[p] = fds[p] \/ fds'[p] = fds[p] + ToOpen(p),
         UNCHANGED <<check, served, late>>
  PROVE  ChildOk(p)'
<1>1. ChildOk(p) /\ TypeOK
  BY DEF Inv, TypeInv
<1>2. pc'[p] = "recv" /\ whole'[p] = TRUE /\ closed'[p] = FALSE /\ path'[p] = "own"
  BY <1>1 DEF Goto, RequestReturns, TypeOK
<1>3. BegunOk(p)' /\ PageOk(p)' /\ LateOk(p)' /\ CloseOk(p)'
  BY <1>1, <1>2 DEF ChildOk, BegunOk, PageOk, LateOk, CloseOk, Unborn
<1>4. FilesOk(p)'
  <2>1. ToOpen(p) \in 0..2 /\ ToOpen(p)' = 0
    BY <1>2 DEF ToOpen
  <2>2. served[p] \in Nat /\ fds[p] \in Nat /\ MaxFiles \in Nat /\ served'[p] = served[p]
    BY <1>1, HttpAssumption DEF TypeOK
  <2>3. 2 * served[p] > MaxFiles + 1 \/ fds[p] + ToOpen(p) <= 2 * served[p]
    BY <1>1 DEF ChildOk, FilesOk
  <2>4. 2 * served'[p] > MaxFiles + 1 \/ fds'[p] + ToOpen(p)' <= 2 * served'[p]
    BY <2>1, <2>2, <2>3
  <2> QED BY <1>2, <2>4 DEF FilesOk
<1> QED BY <1>3, <1>4 DEF ChildOk

LEMMA ErrorOk ==
  ASSUME Inv, NEW p \in Conn, NEW status, NEW r, NEW connection,
         Error(p, status, r, connection), pc[p] \in {"parse", "open"}, status # 200,
         status = 404 /\ Kind[UriOf(r)] \in {"file", "html", "htm"} => 2 * served[p] > MaxFiles
  PROVE  ChildOk(p)'
<1>1. ChildOk(p) /\ TypeOK
  BY DEF Inv, TypeInv
<1>2. last'[p] = [status |-> status, connection |-> connection, whole |-> TRUE, uri |-> UriOf(r)]
  BY <1>1 DEF Error, Sends, TypeOK
<1>3. UNCHANGED <<check, served, late>>
  BY DEF Error
<1>4. LastOk(p)'
  BY <1>2, <1>3 DEF LastOk
<1>5. CASE Ends(p)
  BY <1>3, <1>4, <1>5, EndsOk
<1>6. CASE ~Ends(p)
  <2>1. /\ sopen' = [sopen EXCEPT ![p] = connection # "close"]
        /\ Goto(p, "recv") /\ RequestReturns(p) /\ UNCHANGED files
    BY <1>6 DEF Error
  <2>2. last'[p].connection = "close" => ~sopen'[p]
    <3>1. last'[p].connection = connection
      BY <1>2
    <3>2. sopen'[p] = (connection # "close")
      BY <1>1, <2>1, Zenon DEF TypeOK
    <3> QED BY <3>1, <3>2
  <2>3. fds'[p] = fds[p]
    BY <2>1 DEF files
  <2> QED BY <1>3, <1>4, <2>1, <2>2, <2>3, ReturnsOk
<1> QED BY <1>5, <1>6

\* An accept or a fork: a child starts.
LEMMA StartsOk ==
  ASSUME Inv, NEW p \in Conn, Accept(p) \/ Fork(p)
  PROVE  ChildOk(p)'
<1>1. ChildOk(p) /\ TypeOK
  BY DEF Inv, TypeInv
<1>2. /\ UNCHANGED <<files, reading, serving, hist>> /\ pc[p] \in Unborn
      /\ (pc'[p] = "accepted" /\ check'[p] = check[p]) \/ pc'[p] = "recv"
  BY <1>1 DEF Accept, Fork, At, Goto, Unborn, TypeOK
<1>3. /\ check[p] /\ last'[p] = NoAnswer /\ whole'[p] = whole[p] /\ closed'[p] = closed[p]
      /\ fds'[p] = fds[p] /\ served'[p] = served[p] /\ late'[p] = late[p]
  BY <1>1, <1>2 DEF ChildOk, BegunOk, files, reading, hist
<1>4. BegunOk(p)' /\ LastOk(p)' /\ CloseOk(p)'
  <2>1. LastOk(p)' /\ CloseOk(p)'
    BY <1>3 DEF LastOk, CloseOk, NoAnswer
  <2>2. BegunOk(p)'
    BY <1>2, <1>3 DEF BegunOk, Unborn
  <2> QED BY <2>1, <2>2
<1>5. PageOk(p)' /\ LateOk(p)'
  BY <1>1, <1>2, <1>3 DEF ChildOk, PageOk, LateOk, Unborn, TypeOK
<1>6. FilesOk(p)'
  BY <1>1, <1>2, <1>3 DEF ChildOk, FilesOk, ToOpen, Unborn, TypeOK, serving
<1> QED BY <1>4, <1>5, <1>6 DEF ChildOk

\* The handler: it can only set check to 0, spoil the page and close a file.
LEMMA SigintOk ==
  ASSUME Inv, NEW p \in Conn, ChildSigint(p)
  PROVE  ChildOk(p)'
<1>1. ChildOk(p) /\ TypeOK /\ ThreeIsOpen
  BY DEF Inv, TypeInv
<1>2. /\ check'[p] = FALSE /\ UNCHANGED <<sopen, nread, serving, hist>>
      /\ pc'[p] = pc[p] \/ (pc[p] = "recv" /\ pc'[p] = "cut")
      /\ pc[p] \notin Unborn
  BY <1>1 DEF ChildSigint, At, Goto, Alive, TypeOK
<1>3. fds'[p] \in Nat /\ fds'[p] <= fds[p] /\ fds[p] \in Nat /\ served[p] \in Nat /\ MaxFiles \in Nat
  BY <1>1, HttpAssumption DEF ChildSigint, TypeOK, ThreeIsOpen
<1>4. LastOk(p)' /\ PageOk(p)' /\ LateOk(p)' /\ CloseOk(p)'
  BY <1>1, <1>2 DEF ChildOk, LastOk, PageOk, LateOk, CloseOk, serving, hist
<1>5. BegunOk(p)'
  BY <1>2 DEF BegunOk, Unborn
<1>6. FilesOk(p)'
  <2>1. ToOpen(p)' = ToOpen(p) /\ ToOpen(p) \in 0..2
    BY <1>2 DEF ToOpen, serving
  <2>2. 2 * served'[p] > MaxFiles + 1 \/ fds'[p] + ToOpen(p)' <= 2 * served'[p]
    BY <1>1, <1>2, <1>3, <2>1 DEF ChildOk, FilesOk, hist
  <2> QED BY <1>1, <1>2, <2>2 DEF ChildOk, FilesOk, serving, hist
<1> QED BY <1>4, <1>5, <1>6 DEF ChildOk

LEMMA RecvOk ==
  ASSUME Inv, NEW p \in Conn, Recv(p)
  PROVE  ChildOk(p)'
<1>1. ChildOk(p) /\ TypeOK /\ MaxFiles \in Nat
  BY HttpAssumption DEF Inv, TypeInv
<1>2. PICK r \in Merged(inq[p]) :
        /\ req' = [req EXCEPT ![p] = r]
        /\ served' = [served EXCEPT ![p] =
             IF Refusal(r) = 0 /\ Kind[r.uri] # "absent" /\ @ <= MaxFiles THEN @ + 1 ELSE @]
  BY DEF Recv
<1>3. /\ pc[p] = "recv" /\ pc'[p] = "parse" /\ req'[p] = r /\ sopen[p]
      /\ UNCHANGED <<check, sopen, files, reading, path, conn, last, late>>
  BY <1>1, <1>2 DEF Recv, At, Goto, TypeOK
<1>4. ChildOk(p)'
  <2>1. LastOk(p)'
    <3>1. served'[p] \in Nat /\ served[p] \in Nat /\ served'[p] >= served[p]
      BY <1>1, <1>2 DEF TypeOK
    <3> QED BY <1>1, <1>3, <3>1 DEF ChildOk, LastOk
  <2>2. BegunOk(p)' /\ PageOk(p)' /\ LateOk(p)' /\ CloseOk(p)'
    BY <1>1, <1>3 DEF ChildOk, BegunOk, PageOk, LateOk, CloseOk, Unborn, reading
  <2>3. FilesOk(p)'
    <3>1. ToOpen(p) = 0 /\ fds'[p] = fds[p] /\ fds[p] \in Nat /\ served[p] \in 0..MaxFiles + 1
      BY <1>1, <1>3 DEF ToOpen, files, TypeOK
    <3>2. path'[p] = "own"
      BY <1>1, <1>3 DEF ChildOk, FilesOk
    <3>3. 2 * served[p] > MaxFiles + 1 \/ fds[p] <= 2 * served[p]
      BY <1>1, <3>1 DEF ChildOk, FilesOk
    <3>4. CASE Refusal(r) # 0 \/ Kind[r.uri] = "absent"
      <4>1. ToOpen(p)' = 0 /\ served'[p] = served[p]
        BY <1>1, <1>2, <1>3, <3>4 DEF ToOpen, TypeOK
      <4> QED BY <1>3, <3>1, <3>2, <3>3, <4>1 DEF FilesOk
    <3>5. CASE Refusal(r) = 0 /\ Kind[r.uri] # "absent"
      <4>1. ToOpen(p)' = 2
        BY <1>3, <3>5 DEF ToOpen
      <4>2. served'[p] = IF served[p] <= MaxFiles THEN served[p] + 1 ELSE served[p]
        BY <1>1, <1>2, <3>5 DEF TypeOK
      <4>3. 2 * served'[p] > MaxFiles + 1 \/ fds'[p] + 2 <= 2 * served'[p]
        BY <1>1, <3>1, <3>3, <4>2
      <4> QED BY <1>3, <3>2, <4>1, <4>3 DEF FilesOk
    <3> QED BY <3>4, <3>5
  <2> QED BY <2>1, <2>2, <2>3 DEF ChildOk
<1> QED BY <1>4

\* A timeout, or the end of the connection.
LEMMA RecvFailsOk ==
  ASSUME Inv, NEW p \in Conn, RecvFails(p) \/ NoSize(p) \/ ClientLeaves(p)
  PROVE  ChildOk(p)'
<1>1. ChildOk(p) /\ TypeOK
  BY DEF Inv, TypeInv
<1>2. Ends(p) /\ UNCHANGED <<check, served, late>>
  BY DEF RecvFails, NoSize, ClientLeaves, hist
<1>3. last'[p] = last[p] \/ last'[p].status = 408
  BY <1>1 DEF RecvFails, NoSize, ClientLeaves, hist, Sends, TypeOK
<1>4. LastOk(p)'
  BY <1>1, <1>2, <1>3 DEF ChildOk, LastOk
<1> QED BY <1>2, <1>4, EndsOk

\* A page that is there is not found: no descriptor is left, or none was left
\* when its directory was looked into.
LEMMA NotFoundOk ==
  ASSUME Inv, NEW p \in Conn, NotFound(p) \/ Refuse(p)
  PROVE  ChildOk(p)'
<1>1. ChildOk(p) /\ TypeOK /\ ServedAreGood
  BY DEF Inv, TypeInv
<1>2. CASE Refuse(p)
  <2>1. pc[p] = "parse" /\ req[p] \in Request \cup {Malformed} /\ Refusal(req[p]) # 0
    BY <1>1, <1>2 DEF Refuse, At, ServedAreGood
  <2>2. Refusal(req[p]) # 200 /\ Refusal(req[p]) # 404
    BY <2>1, RefusalType
  <2> QED BY <1>2, <2>1, <2>2, ErrorOk DEF Refuse
<1>3. CASE NotFound(p)
  <2>1. pc[p] = "open" /\ req[p] # Malformed /\ UriOf(req[p]) = req[p].uri /\ Refusal(req[p]) = 0
    BY <1>1, <1>3, Accepted DEF NotFound, At, ServedAreGood, UriOf
  <2>2. ASSUME Kind[req[p].uri] \in {"file", "html", "htm"} PROVE 2 * served[p] > MaxFiles
    <3>1. CASE Exists(p)
      <4>1. fds[p] = MaxFiles /\ ToOpen(p) = 1
        BY <1>3, <2>1, <2>2, <3>1 DEF NotFound, ToOpen
      <4> QED BY <1>1, <4>1, HttpAssumption DEF ChildOk, FilesOk, TypeOK
    <3>2. CASE ~Exists(p)
      <4>1. Kind[req[p].uri] \in {"html", "htm"} /\ path[p] # Kind[req[p].uri]
        BY <1>1, <2>1, <2>2, <3>2 DEF ChildOk, FilesOk, Exists
      <4> QED BY <1>1, <2>1, <4>1 DEF ChildOk, FilesOk
    <3> QED BY <3>1, <3>2
  <2>3. Error(p, 404, req[p], Asked(req[p])) /\ 404 # 200
    BY <1>3 DEF NotFound
  <2> QED BY <2>1, <2>2, <2>3, ErrorOk
<1> QED BY <1>2, <1>3

LEMMA NoExtensionOk ==
  ASSUME Inv, NEW p \in Conn, NoExtension(p)
  PROVE  ChildOk(p)'
<1>1. ChildOk(p) /\ TypeOK /\ ServedAreGood /\ pc[p] = "open"
  BY DEF Inv, TypeInv, NoExtension, At
<1>2. /\ Goto(p, "recv") /\ RequestReturns(p) /\ UNCHANGED <<check, served, late>>
      /\ sopen' = [sopen EXCEPT ![p] = Asked(req[p]) # "close"]
      /\ Kind[req[p].uri] = "dotless" /\ Refusal(req[p]) = 0
  BY <1>1 DEF NoExtension, ServedAreGood
<1>3. last'[p] = [status |-> 404, connection |-> Asked(req[p]), whole |-> TRUE, uri |-> req[p].uri]
  BY <1>1 DEF NoExtension, Sends, TypeOK
<1>4. last'[p].connection = "close" => ~sopen'[p]
  <2>1. last'[p].connection = Asked(req[p])
    BY <1>3
  <2>2. sopen'[p] = (Asked(req[p]) # "close")
    BY <1>1, <1>2, Zenon DEF TypeOK
  <2> QED BY <2>1, <2>2
<1>5. fds'[p] = fds[p] + ToOpen(p)
  <2>1. ToOpen(p) = 1
    BY <1>1, <1>2 DEF ToOpen
  <2> QED BY <1>1, <2>1 DEF NoExtension, Opens, TypeOK
<1>6. LastOk(p)'
  BY <1>2, <1>3 DEF LastOk
<1> QED BY <1>1, <1>2, <1>4, <1>5, <1>6, ReturnsOk

\* A page is sent: whole unless the handler has run; and a child that made it
\* after the handler goes.
LEMMA SendOk ==
  ASSUME Inv, NEW p \in Conn, Send(p)
  PROVE  ChildOk(p)'
<1>1. ChildOk(p) /\ TypeOK /\ pc[p] = "send"
  BY DEF Inv, TypeInv, Send, At
<1>2. last'[p] = [status |-> 200, connection |-> conn[p],
                  whole |-> whole[p] /\ nread[p] = Pieces[req[p].uri], uri |-> req[p].uri]
  BY <1>1, Zenon DEF Send, Sends, TypeOK
<1>3. UNCHANGED <<check, served, late>>
  BY DEF Send
<1>4. LastOk(p)'
  <2>1. /\ last'[p].status = 200 /\ last'[p].connection = conn[p]
        /\ last'[p].whole = (whole[p] /\ nread[p] = Pieces[req[p].uri])
    BY <1>2
  <2>2. nread[p] = Pieces[req[p].uri] /\ (~whole[p] => ~check[p])
    BY <1>1 DEF ChildOk, PageOk
  <2>3. ~last'[p].whole => ~check'[p]
    BY <1>3, <2>1, <2>2, Zenon
  <2> QED BY <2>1, <2>3 DEF LastOk
<1>5. CASE conn[p] \in {"close", "Close"}
  BY <1>3, <1>4, <1>5, EndsOk DEF Send
<1>6. CASE conn[p] \notin {"close", "Close"}
  <2>1. Goto(p, "recv") /\ RequestReturns(p) /\ UNCHANGED <<inq, sig, sopen, files>>
    BY <1>6 DEF Send
  <2>2. late[p] = 0
    <3>1. late[p] \in 0..2
      BY <1>1 DEF TypeOK
    <3>2. ~(late[p] > 0)
      BY <1>1, <1>6 DEF ChildOk, LateOk
    <3> QED BY <3>1, <3>2
  <2>3. last'[p].connection # "close"
    BY <1>2, <1>6
  <2> QED BY <1>1, <1>3, <1>4, <2>1, <2>2, <2>3, ReturnsOk DEF files
<1> QED BY <1>5, <1>6

\* A file is opened, or none: as many as there were to open, at most.
LEMMA IndexOk ==
  ASSUME Inv, NEW p \in Conn, Serve(p) \/ Index(p) \/ Open(p)
  PROVE  ChildOk(p)'
<1>1. ChildOk(p) /\ TypeOK /\ ServedAreGood /\ MaxFiles \in Nat
  BY HttpAssumption DEF Inv, TypeInv
<1>2. /\ pc[p] \in {"parse", "index", "open"} /\ pc'[p] \in {"index", "open", "size"}
      /\ UNCHANGED <<check, reading, req, conn, hist>> /\ Refusal(req[p]) = 0
  BY <1>1 DEF Serve, Index, Open, At, Goto, TypeOK, serving, ServedAreGood
<1>3. LastOk(p)' /\ BegunOk(p)' /\ PageOk(p)' /\ LateOk(p)' /\ CloseOk(p)'
  BY <1>1, <1>2 DEF ChildOk, LastOk, BegunOk, PageOk, LateOk, CloseOk, Unborn, reading, hist
<1>4. fds[p] \in 0..MaxFiles /\ served[p] \in Nat /\ served'[p] = served[p] /\ req'[p] = req[p]
  BY <1>1, <1>2 DEF TypeOK, hist
<1>5. 2 * served[p] > MaxFiles + 1 \/ fds[p] + ToOpen(p) <= 2 * served[p]
  BY <1>1 DEF ChildOk, FilesOk
<1>6. CASE Serve(p)
  <2>1. /\ pc[p] = "parse" /\ fds'[p] = fds[p] /\ path'[p] = path[p]
        /\ pc'[p] = IF Kind[req[p].uri] \in {"html", "htm"} THEN "index" ELSE "open"
    BY <1>1, <1>6 DEF Serve, At, Goto, files, serving, TypeOK
  <2>2. path[p] = "own"
    BY <1>1, <2>1 DEF ChildOk, FilesOk
  <2>3. ToOpen(p)' \in 0..2 /\ ToOpen(p) \in 0..2 /\ ToOpen(p)' <= ToOpen(p)
    BY <1>2, <1>4, <2>1 DEF ToOpen
  <2>4. 2 * served'[p] > MaxFiles + 1 \/ fds'[p] + ToOpen(p)' <= 2 * served'[p]
    BY <1>1, <1>4, <1>5, <2>1, <2>3
  <2>5. /\ pc'[p] = "index" => Kind[req'[p].uri] \in {"html", "htm"}
        /\ pc'[p] = "open" => Kind[req'[p].uri] \notin {"html", "htm"}
        /\ pc'[p] \notin Unborn \cup {"recv", "parse"}
    BY <1>4, <2>1 DEF Unborn
  <2>6. FilesOk(p)'
    BY <2>1, <2>2, <2>4, <2>5 DEF FilesOk
  <2> QED BY <1>3, <2>6 DEF ChildOk
<1>7. CASE Index(p)
  <2>1. /\ pc[p] = "index" /\ pc'[p] = "open" /\ Kind[req[p].uri] \in {"html", "htm"}
        /\ ToOpen(p) = 2 /\ ToOpen(p)' = 1
    BY <1>1, <1>2, <1>4, <1>7 DEF Index, At, Goto, TypeOK, ChildOk, FilesOk, ToOpen
  <2>2. fds'[p] \in Nat /\ fds'[p] <= fds[p] + 1
    BY <1>1, <1>4, <1>7 DEF Index, Opens, files, TypeOK
  <2>3. 2 * served'[p] > MaxFiles + 1 \/ fds'[p] + ToOpen(p)' <= 2 * served'[p]
    BY <1>1, <1>4, <1>5, <2>1, <2>2
  <2>4. path'[p] = Kind[req[p].uri] \/ fds[p] = MaxFiles
    BY <1>1, <1>7, <2>1 DEF Index, TypeOK
  <2>5. fds[p] = MaxFiles => 2 * served[p] > MaxFiles
    BY <1>1, <1>4, <1>5, <2>1
  <2>6. FilesOk(p)'
    BY <1>4, <2>1, <2>3, <2>4, <2>5 DEF FilesOk, Unborn
  <2> QED BY <1>3, <2>6 DEF ChildOk
<1>8. CASE Open(p)
  <2>1. /\ pc[p] = "open" /\ pc'[p] = "size" /\ fds'[p] = fds[p] + 1 /\ ToOpen(p)' = 0
        /\ Kind[req[p].uri] # "absent"
    BY <1>1, <1>8 DEF Open, Exists, Opens, At, Goto, TypeOK, ToOpen
  <2>2. ToOpen(p) = 1
    BY <1>2, <2>1 DEF ToOpen
  <2>3. 2 * served'[p] > MaxFiles + 1 \/ fds'[p] + ToOpen(p)' <= 2 * served'[p]
    BY <1>1, <1>4, <1>5, <2>1, <2>2
  <2>4. FilesOk(p)'
    BY <2>1, <2>3 DEF FilesOk, Unborn
  <2> QED BY <1>3, <2>4 DEF ChildOk
<1> QED BY <1>6, <1>7, <1>8

\* The page is read and its header made.
LEMMA ReadOk ==
  ASSUME Inv, NEW p \in Conn, Size(p) \/ Read(p) \/ Header(p)
  PROVE  ChildOk(p)'
<1>1. ChildOk(p) /\ TypeOK /\ ServedAreGood
  BY DEF Inv, TypeInv
<1>2. /\ pc[p] \in {"size", "read"} /\ pc'[p] \in {"read", "send"}
      /\ UNCHANGED <<check, sopen, files, closed, req, last, served>>
  BY <1>1 DEF Size, Read, Header, At, Goto, TypeOK, reading, serving, hist
<1>3. LastOk(p)' /\ BegunOk(p)' /\ CloseOk(p)'
  BY <1>1, <1>2 DEF ChildOk, LastOk, BegunOk, CloseOk, Unborn
<1>4. FilesOk(p)'
  <2>1. ToOpen(p) = 0 /\ ToOpen(p)' = 0
    BY <1>2 DEF ToOpen
  <2> QED BY <1>1, <1>2, <2>1 DEF ChildOk, FilesOk, Unborn, files
<1>5. Pieces[req[p].uri] \in Nat \ {0} /\ nread[p] \in Nat /\ late[p] \in 0..2
  BY <1>1, <1>2, Accepted, HttpAssumption DEF ServedAreGood, TypeOK
<1>6. CASE Size(p)
  <2>1. /\ pc'[p] = "read" /\ whole'[p] = whole[p] /\ late'[p] = late[p] /\ pc[p] = "size"
        /\ nread'[p] = IF Pieces[req[p].uri] = 1 THEN 1 ELSE 0
    BY <1>1, <1>6 DEF Size, At, Goto, TypeOK, hist
  <2>2. PageOk(p)' /\ LateOk(p)'
    BY <1>1, <1>2, <1>5, <2>1 DEF ChildOk, PageOk, LateOk
  <2> QED BY <1>3, <1>4, <2>2 DEF ChildOk
<1>7. CASE Read(p)
  <2>1. /\ pc[p] = "read" /\ pc'[p] = "read" /\ Pieces[req[p].uri] - nread[p] > 0
        /\ nread'[p] = nread[p] + 1 /\ late'[p] = late[p] /\ conn'[p] = conn[p]
        /\ whole'[p] = (whole[p] /\ ~closed[p])
    BY <1>1, <1>7 DEF Read, Left, At, TypeOK, hist, serving
  <2>2. ~whole'[p] => ~check[p]
    BY <1>1, <2>1, Zenon DEF ChildOk, PageOk
  <2>3. PageOk(p)'
    BY <1>1, <1>2, <1>5, <2>1, <2>2 DEF ChildOk, PageOk
  <2>4. LateOk(p)'
    BY <1>1, <1>2, <2>1 DEF ChildOk, LateOk
  <2> QED BY <1>3, <1>4, <2>3, <2>4 DEF ChildOk
<1>8. CASE Header(p)
  <2>1. /\ pc[p] = "read" /\ pc'[p] = "send" /\ Pieces[req[p].uri] - nread[p] = 0
        /\ nread'[p] = nread[p] /\ whole'[p] = whole[p]
        /\ conn'[p] = IF check[p] THEN Asked(req[p]) ELSE "close"
        /\ late'[p] = IF check[p] \/ late[p] = 2 THEN late[p] ELSE late[p] + 1
    BY <1>1, <1>8 DEF Header, Left, At, Goto, TypeOK, reading
  <2>2. PageOk(p)'
    BY <1>1, <1>2, <1>5, <2>1 DEF ChildOk, PageOk
  <2>3. late[p] = 0
    BY <1>1, <1>5, <2>1 DEF ChildOk, LateOk
  <2>4. LateOk(p)'
    BY <1>2, <2>1, <2>3 DEF LateOk
  <2> QED BY <1>3, <1>4, <2>2, <2>4 DEF ChildOk
<1> QED BY <1>6, <1>7, <1>8

LEMMA InvStep == Inv /\ [Next]_vars => Inv'
<1> SUFFICES ASSUME Inv, [Next]_vars PROVE Inv'
  OBVIOUS
<1>1. TypeInv'
  BY TypeStep DEF Inv
<1>2. ASSUME NEW p \in Conn, Own(p) PROVE \A q \in Conn : ChildOk(q)'
  <2>1. ASSUME NEW q \in Conn, q # p PROVE ChildOk(q)'
    BY <1>2, <2>1, OwnAlone, SameOk DEF Inv, TypeInv
  <2>2. ChildOk(p)'
    <3>1. ASSUME NEW r \in may.asks, ClientSends(p, r) PROVE ChildOk(p)'
      <4>1. Same(p)
        BY <3>1 DEF ClientSends, Same, files, reading, serving, hist
      <4> QED BY <4>1, SameOk DEF Inv
    <3> QED BY <1>2, <3>1, StartsOk, SigintOk, RecvOk, RecvFailsOk, NotFoundOk, NoExtensionOk,
               SendOk, IndexOk, ReadOk DEF Own, Step
  <2> QED BY <2>1, <2>2
<1>3. ASSUME \A q \in Conn : Same(q) PROVE \A q \in Conn : ChildOk(q)'
  BY <1>3, SameOk DEF Inv
<1>4. ASSUME MainSigint \/ MainStops \/ MainEnds \/ UNCHANGED vars
      PROVE  \A q \in Conn : ChildOk(q)'
  BY <1>3, <1>4 DEF MainSigint, MainStops, MainEnds, Same, files, reading, serving, hist, vars
<1>5. ASSUME NEW all \in BOOLEAN, Interrupt(all) PROVE \A q \in Conn : ChildOk(q)'
  BY <1>3, <1>5 DEF Interrupt, Same, files, reading, serving, hist
<1>6. \A q \in Conn : ChildOk(q)'
  BY <1>2, <1>4, <1>5 DEF Next, Main, Own
<1> QED BY <1>1, <1>6 DEF Inv

\* A page is sent spoilt only by a child of which the handler of SIGINT has
\* run: no file is read with its number closed, and no send is cut short,
\* before.
THEOREM PagesAreSent == Spec => []SentIsThePage
<1>1. Inv => SentIsThePage
  BY DEF Inv, ChildOk, LastOk, SentIsThePage
<1> QED BY <1>1, InvInit, InvStep, PTL DEF Spec

\* A page that is there is answered with 404 only when the connection has
\* asked for more than half as many pages as it may have files open, however
\* signals, errors and directories come between.
THEOREM FirstPagesFound == Spec => []FirstPagesAreFound
<1>1. Inv => FirstPagesAreFound
  BY DEF Inv, ChildOk, LastOk, FirstPagesAreFound
<1> QED BY <1>1, InvInit, InvStep, PTL DEF Spec

\* A child makes one page after the handler has run, at most.
THEOREM OneMorePage == Spec => []OnePageAfterSigint
<1>1. Inv => OnePageAfterSigint
  BY DEF Inv, ChildOk, LateOk, OnePageAfterSigint
<1> QED BY <1>1, InvInit, InvStep, PTL DEF Spec

\* No answer follows one that says "close".
LEMMA ClosedIsMute ==
  Inv /\ [Next]_vars => [\A p \in Conn : last[p].connection = "close" => last'[p] = last[p]]_vars
<1> SUFFICES ASSUME Inv, Next, NEW p \in Conn, last[p].connection = "close"
             PROVE  last'[p] = last[p]
  BY DEF vars, hist
<1>1. TypeOK /\ ChildOk(p)
  BY DEF Inv, TypeInv
<1>2. pc[p] = "gone" \/ (pc[p] \in {"recv", "cut"} /\ ~sopen[p])
  BY <1>1 DEF ChildOk, CloseOk
<1>3. CASE Own(p)
  <2>1. \A r \in may.asks : ClientSends(p, r) => last'[p] = last[p]
    BY DEF ClientSends, hist
  <2>2. RecvFails(p) => last'[p] = last[p]
    BY <1>2 DEF RecvFails, At
  <2>3. ~(Refuse(p) \/ NotFound(p) \/ NoExtension(p) \/ Send(p))
    BY <1>2 DEF Refuse, NotFound, NoExtension, Send, At
  <2> QED BY <1>3, <2>1, <2>2, <2>3 DEF Own, Step, Accept, Fork, ChildSigint, ClientLeaves, Recv, Serve,
          Index, Open, Size, NoSize, Read, Header, hist
<1>4. ASSUME NEW q \in Conn, q # p, Own(q) PROVE last'[p] = last[p]
  BY <1>1, <1>4, OwnAlone DEF Same
<1>5. CASE MainSigint \/ MainStops \/ MainEnds \/ \E all \in BOOLEAN : Interrupt(all)
  BY <1>5 DEF MainSigint, MainStops, MainEnds, Interrupt, hist
<1> QED BY <1>3, <1>4, <1>5 DEF Next, Main, Own

\* A connection carries nothing after an answer that says "close": the child
\* either goes or has closed the socket, and the 408 it has to send when its
\* recv fails is not sent.
THEOREM NothingAfterClose == Spec => CloseIsLast
BY InvInit, InvStep, ClosedIsMute, PTL DEF Spec, CloseIsLast
=============================================================================
