------------------------------ MODULE HttpServer ------------------------------
(***************************************************************************)
(* The web server of PA2 (server.c): a process per connection, which takes *)
(* requests and answers them with a page of www/ or an error, until the    *)
(* connection is to be closed, its client is silent for ten seconds, or    *)
(* SIGINT has come.  The handler of SIGINT is main's, and the children     *)
(* inherit it.                                                             *)
(*                                                                         *)
(* Descriptors are counted: no page file is ever closed.  Number 3 is kept *)
(* apart: it was the listening socket, the child has closed it, the first  *)
(* file the child opens gets it, and the handler closes it.                *)
(*                                                                         *)
(* What a client sends between two calls of recv is one request, and the   *)
(* header fields of it are looked for in all of it.                        *)
(***************************************************************************)
EXTENDS Integers, Sequences, FiniteSets

CONSTANTS
  Conn,        \* the connections there may be, each with its child
  Page,        \* names a client may ask for
  Kind,        \* what each of them is in www/
  Pieces,      \* how many reads a page takes
  Malformed,   \* a request of which the first line is not complete
  NoRequest,
  MaxFiles     \* bound on the page files a process can have open

\* A directory is one of its index page, "dotless" a file with no extension.
\* Of a request with no Connection field another field is taken for it, that
\* is "other"; "none" is the Connection of one which has no such field either.
Kinds == {"file", "html", "htm", "dotless", "absent"}
Connections == {"keep-alive", "close", "Close", "other"}
Request == [method : {"GET", "POST"}, uri : Page, dots : BOOLEAN,
            version : {"1.1", "1.0", "2"}, connection : Connections \cup {"none"}]

ASSUME HttpAssumption ==
  /\ Kind \in [Page -> Kinds] /\ Pieces \in [Page -> Nat \ {0}]
  /\ Malformed \notin Request /\ NoRequest \notin Request \cup Page \cup {Malformed}
  /\ MaxFiles \in Nat

VARIABLES
  ppc, pcheck, psig, \* main: where it is, check, SIGINT on its way to it
  pc, check, sig,    \* each child: the same
  inq,         \* requests in its socket
  sopen,       \* client_socket is open in the child
  req,         \* the request it serves
  path,        \* which file relative_path names
  fds, three,  \* open page files, and which of them has number 3
  nread, whole, closed,  \* reads made, all of them good, fp's number closed
  conn,        \* the Connection that the header made last carries
  may,         \* bounds: who connects, what clients ask, and how many
               \* requests at once, how many signals are sent
  last,        \* history: the answer sent last
  served,      \* history: requests for something that is in www/
  late         \* history: headers of pages made after the handler ran

main == <<ppc, pcheck, psig>>
files == <<fds, three>>
reading == <<nread, whole, closed>>
serving == <<req, path, conn>>
hist == <<last, served, late>>
vars == <<main, pc, check, sig, inq, sopen, files, reading, serving,
          may, hist>>

NoAnswer == [status |-> 0, connection |-> "none", whole |-> TRUE, uri |-> NoRequest]

\* A start in which that much can happen.
Start(bounds) ==
  /\ may = bounds
  /\ ppc = "accept" /\ pcheck = TRUE /\ psig = FALSE
  /\ pc = [p \in Conn |-> "unborn"] /\ check = [p \in Conn |-> TRUE]
  /\ sig = [p \in Conn |-> FALSE]
  /\ inq = [p \in Conn |-> <<>>]
  /\ sopen = [p \in Conn |-> FALSE]
  /\ req = [p \in Conn |-> NoRequest] /\ path = [p \in Conn |-> "own"]
  /\ fds = [p \in Conn |-> 0] /\ three = [p \in Conn |-> "free"]
  /\ nread = [p \in Conn |-> 0] /\ whole = [p \in Conn |-> TRUE]
  /\ closed = [p \in Conn |-> FALSE]
  /\ conn = [p \in Conn |-> "none"]
  /\ last = [p \in Conn |-> NoAnswer]
  /\ served = [p \in Conn |-> 0] /\ late = [p \in Conn |-> 0]
Bounds == [conns : SUBSET Conn, asks : SUBSET (Request \cup {Malformed}),
           queue : Nat, signals : Nat]
Init == \E bounds \in Bounds : Start(bounds)

(* ------------------------------- helpers ------------------------------ *)

At(p, state) == pc[p] = state
Goto(p, state) == pc' = [pc EXCEPT ![p] = state]
Unborn == {"unborn", "accepted"}
Alive(p) == pc[p] \notin Unborn \cup {"gone"}

AskedNoDefault(r) ==           \* a mutant: no default for HTTP/1.0
  IF r.connection # "none" THEN r.connection
  ELSE IF r.version = "1.1" THEN "keep-alive" ELSE "null"

\* The Connection that parse_request works with.
Asked(r) ==
  CASE r.connection # "none" -> r.connection
    [] r.connection = "none" /\ r.version = "1.1" -> "keep-alive"
    [] r.connection = "none" /\ r.version = "1.0" -> "close"
    [] OTHER -> "null"

\* Requests read at once: the first line is that of the first of them, the
\* Connection that of the first of them which has one, or none, or what
\* strtok takes for one in the lines of the next.
Merged(q) ==
  LET named == {i \in 1..Len(q) : q[i] # Malformed /\ q[i].connection # "none"}
      first == CHOOSE i \in named : \A j \in named : i <= j
  IN IF Head(q) = Malformed \/ Len(q) = 1 THEN {Head(q)}
     ELSE IF named # {} THEN {[Head(q) EXCEPT !.connection = q[first].connection]}
     ELSE {[Head(q) EXCEPT !.connection = x] : x \in {"none", "other"}}

\* The status of requests that are refused before a file is looked for, in
\* the order of the tests, and 0 for the others.
Refusal(r) ==
  CASE r = Malformed -> 400
    [] r # Malformed /\ r.dots -> 403
    [] r # Malformed /\ ~r.dots /\ r.method # "GET" -> 405
    [] r # Malformed /\ ~r.dots /\ r.method = "GET"
         /\ r.version \notin {"1.1", "1.0"} -> 505
    [] OTHER -> 0
\* Only 405 and 404 keep the Connection that was asked for.
RefusedWith(r) == IF Refusal(r) = 405 THEN Asked(r) ELSE "keep-alive"

UriOf(r) == IF r = Malformed THEN NoRequest ELSE r.uri

\* An answer: history keeps it.
Sends(p, status, connection, good, uri) ==
  last' = [last EXCEPT ![p] = [status |-> status, connection |-> connection,
                               whole |-> good, uri |-> uri]]

\* The local variables of service_request are gone when it returns.
RequestReturns(p) ==
  /\ req' = [req EXCEPT ![p] = NoRequest] /\ path' = [path EXCEPT ![p] = "own"]
  /\ conn' = [conn EXCEPT ![p] = "none"]
  /\ nread' = [nread EXCEPT ![p] = 0] /\ whole' = [whole EXCEPT ![p] = TRUE]
  /\ closed' = [closed EXCEPT ![p] = FALSE]

Ends(p) ==
  /\ Goto(p, "gone") /\ RequestReturns(p)
  /\ inq' = [inq EXCEPT ![p] = <<>>] /\ sopen' = [sopen EXCEPT ![p] = FALSE]
  /\ sig' = [sig EXCEPT ![p] = FALSE]
  /\ fds' = [fds EXCEPT ![p] = 0] /\ three' = [three EXCEPT ![p] = "free"]

ErrorNoClose(p, status, r, connection) ==    \* a mutant: the socket stays open
  /\ Sends(p, status, connection, TRUE, UriOf(r))
  /\ Goto(p, "recv") /\ RequestReturns(p)
  /\ UNCHANGED <<main, check, sig, inq, sopen, files, may, served, late>>

\* An error answer.  The socket is closed for "close" and not for "Close",
\* the child goes on to recv in both cases, and strcmp of NULL ends it.
Error(p, status, r, connection) ==
  /\ Sends(p, status, connection, TRUE, UriOf(r))
  /\ \/ connection = "null" /\ Ends(p)
     \/ /\ connection # "null"
        /\ sopen' = [sopen EXCEPT ![p] = connection # "close"]
        /\ Goto(p, "recv") /\ RequestReturns(p)
        /\ UNCHANGED <<inq, sig, files>>
  /\ UNCHANGED <<main, check, may, served, late>>

(* --------------------------------- main ------------------------------- *)

\* A client connects.
Accept(p) ==
  /\ p \in may.conns /\ ppc = "accept" /\ pcheck /\ At(p, "unborn")
  /\ ppc' = "fork" /\ Goto(p, "accepted")
  /\ UNCHANGED <<pcheck, psig, check, sig, inq, sopen, files, reading,
                 serving, may, hist>>

\* The child has main's check; a signal on its way to main does not reach it.
Fork(p) ==
  /\ ppc = "fork" /\ At(p, "accepted")
  /\ ppc' = "accept" /\ Goto(p, "recv")
  /\ check' = [check EXCEPT ![p] = pcheck] /\ sopen' = [sopen EXCEPT ![p] = TRUE]
  /\ UNCHANGED <<pcheck, psig, sig, inq, files, reading, serving, may, hist>>

\* The handler in main closes the listening socket, so that accept fails.
MainSigint ==
  /\ psig /\ ppc # "done" /\ psig' = FALSE /\ pcheck' = FALSE
  /\ UNCHANGED <<ppc, pc, check, sig, inq, sopen, files, reading, serving,
                 may, hist>>
MainStops ==
  /\ ppc = "accept" /\ ~pcheck /\ ppc' = "wait"
  /\ UNCHANGED <<pcheck, psig, pc, check, sig, inq, sopen, files, reading,
                 serving, may, hist>>
MainEnds ==
  /\ ppc = "wait" /\ (\A p \in Conn : ~Alive(p)) /\ ppc' = "done"
  /\ UNCHANGED <<pcheck, psig, pc, check, sig, inq, sopen, files, reading,
                 serving, may, hist>>

(* -------------------------------- SIGINT ------------------------------ *)

\* SIGINT to main, or to main and all its children (Ctrl-C).
Interrupt(all) ==
  /\ may.signals > 0 /\ ppc # "done"
  /\ may' = [may EXCEPT !.signals = @ - 1]
  /\ psig' = TRUE /\ sig' = [p \in Conn |-> sig[p] \/ (all /\ Alive(p))]
  /\ UNCHANGED <<ppc, pcheck, pc, check, inq, sopen, files, reading, serving,
                 hist>>

\* The handler in a child closes what has number 3 now.  It may cut short a
\* recv that waits (which has a timeout and is not restarted), and a send
\* that is too long to be done at once.
ChildSigint(p) ==
  /\ sig[p] /\ Alive(p)
  /\ sig' = [sig EXCEPT ![p] = FALSE] /\ check' = [check EXCEPT ![p] = FALSE]
  /\ closed' = [closed EXCEPT ![p] = @ \/ (three[p] = "newest" /\ pc[p] \in {"size", "read"})]
  /\ fds' = [fds EXCEPT ![p] = IF three[p] = "free" THEN @ ELSE @ - 1]
  /\ three' = [three EXCEPT ![p] = "free"]
  /\ \/ UNCHANGED <<pc, whole>>
     \/ At(p, "recv") /\ inq[p] = <<>> /\ Goto(p, "cut") /\ UNCHANGED whole
     \/ /\ At(p, "send") /\ Pieces[req[p].uri] > 1
        /\ whole' = [whole EXCEPT ![p] = FALSE] /\ UNCHANGED pc
  /\ UNCHANGED <<main, inq, sopen, nread, serving, may, hist>>

(* ------------------------------- children ----------------------------- *)

\* All that is in the socket is taken for one request.
Recv(p) ==
  /\ At(p, "recv") /\ sopen[p] /\ inq[p] # <<>>
  /\ \E r \in Merged(inq[p]) :
     /\ req' = [req EXCEPT ![p] = r]
     /\ served' = [served EXCEPT ![p] =
          IF Refusal(r) = 0 /\ Kind[r.uri] # "absent" /\ @ <= MaxFiles THEN @ + 1 ELSE @]
  /\ inq' = [inq EXCEPT ![p] = <<>>] /\ Goto(p, "parse")
  /\ UNCHANGED <<main, check, sig, sopen, files, reading, path, conn,
                 may, last, late>>

RecvFailsStays(p) ==           \* a mutant: back to recv after a timeout
  At(p, "cut") /\ Goto(p, "recv")
  /\ UNCHANGED <<main, check, sig, inq, sopen, files, reading, serving, may, hist>>

\* recv timed out, met the end of the connection or a socket that an error
\* answer closed, or was cut short: a child of which the handler has run
\* goes in silence, another sends a 408 if it still can.
RecvFails(p) ==
  /\ \/ At(p, "cut")
     \/ At(p, "recv") /\ (inq[p] = <<>> \/ ~sopen[p])
  /\ IF check[p] /\ sopen[p] THEN Sends(p, 408, "close", TRUE, NoRequest)
                             ELSE UNCHANGED last
  /\ Ends(p)
  /\ UNCHANGED <<main, check, may, served, late>>

\* A request that parse_request answers itself.
Refuse(p) ==
  /\ At(p, "parse") /\ Refusal(req[p]) # 0
  /\ Error(p, Refusal(req[p]), req[p], RefusedWith(req[p]))

\* service_request: isDirectory.
Serve(p) ==
  /\ At(p, "parse") /\ Refusal(req[p]) = 0
  /\ Goto(p, IF Kind[req[p].uri] \in {"html", "htm"} THEN "index" ELSE "open")
  /\ UNCHANGED <<main, check, sig, inq, sopen, files, reading, serving,
                 may, hist>>

\* fopen finds the file and has a descriptor for it: the lowest one.
Opens(p) == /\ fds[p] < MaxFiles /\ fds' = [fds EXCEPT ![p] = @ + 1]
            /\ three' = [three EXCEPT ![p] = IF @ = "free" THEN "newest" ELSE "older"]

IndexNoFallback(p) ==          \* a mutant: index.htm is not tried
  /\ At(p, "index") /\ Goto(p, "open") /\ path' = [path EXCEPT ![p] = "html"]
  /\ IF Kind[req[p].uri] = "html" THEN Opens(p) ELSE UNCHANGED files
  /\ UNCHANGED <<main, check, sig, inq, sopen, reading, req, conn, may, hist>>

\* Is there index.html?  The file is opened to see, and once more later on.
Index(p) ==
  /\ At(p, "index") /\ Goto(p, "open")
  /\ \/ /\ Kind[req[p].uri] = "html" /\ Opens(p)
        /\ path' = [path EXCEPT ![p] = "html"]
     \/ /\ Kind[req[p].uri] = "htm" \/ fds[p] = MaxFiles
        /\ path' = [path EXCEPT ![p] = "htm"] /\ UNCHANGED files
  /\ UNCHANGED <<main, check, sig, inq, sopen, reading, req, conn, may, hist>>

\* relative_path is the name of a file.
Exists(p) == CASE path[p] = "own" -> Kind[req[p].uri] \in {"file", "dotless"}
               [] OTHER -> Kind[req[p].uri] = path[p]
Open(p) ==
  /\ At(p, "open") /\ Exists(p) /\ Kind[req[p].uri] # "dotless" /\ Opens(p)
  /\ Goto(p, "size")
  /\ UNCHANGED <<main, check, sig, inq, sopen, reading, serving, may, hist>>

\* There is no such file, or no descriptor for it.
NotFound(p) ==
  /\ At(p, "open") /\ (~Exists(p) \/ fds[p] = MaxFiles)
  /\ Error(p, 404, req[p], Asked(req[p]))

\* A file with no extension has been opened when that is seen.
NoExtension(p) ==
  /\ At(p, "open") /\ Kind[req[p].uri] = "dotless" /\ Opens(p)
  /\ Sends(p, 404, Asked(req[p]), TRUE, req[p].uri)
  /\ sopen' = [sopen EXCEPT ![p] = Asked(req[p]) # "close"]
  /\ Goto(p, "recv") /\ RequestReturns(p)
  /\ UNCHANGED <<main, check, sig, inq, may, served, late>>

\* fseek and ftell: a small file is in fp's buffer from here on.  With its
\* number closed, fp has size -1, and memcpy ends the process.
Size(p) ==
  /\ At(p, "size") /\ ~closed[p] /\ Goto(p, "read")
  /\ nread' = [nread EXCEPT ![p] = IF Pieces[req[p].uri] = 1 THEN 1 ELSE 0]
  /\ UNCHANGED <<main, check, sig, inq, sopen, files, whole, closed, serving,
                 may, hist>>
NoSize(p) ==
  /\ At(p, "size") /\ closed[p] /\ Ends(p)
  /\ UNCHANGED <<main, check, may, hist>>

LeftButLast(p) == Pieces[req[p].uri] - nread[p] - 1  \* a mutant: off by one
\* A read of fread; what fails leaves payload as it is.
Left(p) == Pieces[req[p].uri] - nread[p]
Read(p) ==
  /\ At(p, "read") /\ Left(p) > 0
  /\ nread' = [nread EXCEPT ![p] = @ + 1]
  /\ whole' = [whole EXCEPT ![p] = @ /\ ~closed[p]]
  /\ UNCHANGED <<main, pc, check, sig, inq, sopen, files, closed, serving,
                 may, hist>>

HeaderAsAsked(p) ==            \* a mutant: check is not looked at
  /\ At(p, "read") /\ Left(p) = 0 /\ Goto(p, "send")
  /\ conn' = [conn EXCEPT ![p] = Asked(req[p])]
  /\ late' = [late EXCEPT ![p] = IF check[p] \/ @ = 2 THEN @ ELSE @ + 1]
  /\ UNCHANGED <<main, check, sig, inq, sopen, files, reading, req, path, may,
                 last, served>>

\* The header: "close" once the handler has run.
Header(p) ==
  /\ At(p, "read") /\ Left(p) = 0 /\ Goto(p, "send")
  /\ conn' = [conn EXCEPT ![p] = IF check[p] THEN Asked(req[p]) ELSE "close"]
  /\ late' = [late EXCEPT ![p] = IF check[p] \/ @ = 2 THEN @ ELSE @ + 1]
  /\ UNCHANGED <<main, check, sig, inq, sopen, files, reading, req, path,
                 may, last, served>>

Send(p) ==
  /\ At(p, "send")
  /\ Sends(p, 200, conn[p], whole[p] /\ nread[p] = Pieces[req[p].uri], req[p].uri)
  /\ IF conn[p] \in {"close", "Close"}
     THEN Ends(p)
     ELSE /\ Goto(p, "recv") /\ RequestReturns(p)
          /\ UNCHANGED <<inq, sig, sopen, files>>
  /\ UNCHANGED <<main, check, may, served, late>>

(* ------------------------------- clients ------------------------------ *)

\* Clients may send without waiting for answers; they do not send on after
\* half a request.
ClientSends(p, r) ==
  /\ Alive(p) /\ sopen[p] /\ Len(inq[p]) < may.queue
  /\ \A i \in DOMAIN inq[p] : Malformed \notin {inq[p][i], r}
  /\ inq' = [inq EXCEPT ![p] = Append(@, r)]
  /\ UNCHANGED <<main, pc, check, sig, sopen, files, reading, serving,
                 may, hist>>

\* The client has gone.  Its child finds the connection at its end, as if it
\* had timed out, or sends, and this may raise SIGPIPE.
ClientLeaves(p) ==
  /\ pc[p] \in {"recv", "parse", "open", "send"} /\ Ends(p)
  /\ UNCHANGED <<main, check, may, hist>>

(* ------------------------------ next state ---------------------------- *)

Main == MainSigint \/ MainStops \/ MainEnds \/ \E p \in Conn : Fork(p)
\* What a child does of itself, its ten seconds included.
Step(p) ==
  \/ Recv(p) \/ RecvFails(p) \/ Refuse(p) \/ Serve(p) \/ Index(p)
  \/ Open(p) \/ NotFound(p) \/ NoExtension(p)
  \/ Size(p) \/ NoSize(p) \/ Read(p) \/ Header(p) \/ Send(p)

Next ==
  \/ Main
  \/ \E p \in Conn : \/ Accept(p) \/ Step(p) \/ ChildSigint(p)
                     \/ ClientLeaves(p)
                     \/ \E r \in may.asks : ClientSends(p, r)
  \/ \E all \in BOOLEAN : Interrupt(all)

\* main and the children go on when they can, but for a page that is being
\* sent: send has no timeout and may wait for ever for a client to read it.
\* No client has to do anything.  (An error answer fits into the socket.)
WaitsForNobody(p) == ~At(p, "send") /\ Step(p)
Fairness == WF_vars(Main) /\ \A p \in Conn : WF_vars(WaitsForNobody(p))
Spec == Init /\ [][Next]_vars /\ Fairness

(* ------------------------------ properties ---------------------------- *)

Answer ==
  [status : {0, 200, 400, 403, 404, 405, 408, 505},
   connection : Connections \cup {"null", "none"}, whole : BOOLEAN,
   uri : Page \cup {NoRequest}]

\* Every variable keeps its type; "null" is never in the header of a page.
TypeOK ==
  /\ ppc \in {"accept", "fork", "wait", "done"}
  /\ pcheck \in BOOLEAN /\ psig \in BOOLEAN
  /\ pc \in [Conn -> Unborn \cup {"recv", "cut", "parse", "index", "open", "size",
                                  "read", "send", "gone"}]
  /\ check \in [Conn -> BOOLEAN] /\ sig \in [Conn -> BOOLEAN]
  /\ inq \in [Conn -> Seq(Request \cup {Malformed})] /\ sopen \in [Conn -> BOOLEAN]
  /\ req \in [Conn -> Request \cup {Malformed, NoRequest}]
  /\ path \in [Conn -> {"own", "html", "htm"}]
  /\ fds \in [Conn -> 0..MaxFiles] /\ three \in [Conn -> {"free", "newest", "older"}]
  /\ nread \in [Conn -> Nat] /\ whole \in [Conn -> BOOLEAN]
  /\ closed \in [Conn -> BOOLEAN]
  /\ conn \in [Conn -> Connections \cup {"none"}] /\ may \in Bounds
  /\ last \in [Conn -> Answer]
  /\ served \in [Conn -> 0..MaxFiles + 1] /\ late \in [Conn -> 0..2]

\* A page that is not sent whole, or not as it is, is sent by a child of
\* which the handler has run: it closed the file (number 3) while it was
\* read, or cut send short.
SentIsThePage ==
  \A p \in Conn : last[p].status = 200 /\ ~last[p].whole => ~check[p]

\* Files are never closed (268, 279), two of them for a page that is the
\* index of a directory: a page that is there is not found only when a
\* connection has asked for more than MaxFiles/2 of them.
FirstPagesAreFound ==
  \A p \in Conn :
    last[p].status = 404 /\ Kind[last[p].uri] \in {"file", "html", "htm"}
      => 2 * served[p] > MaxFiles

\* A connection carries nothing after an answer that says "close", although
\* the child goes round its loop after an error answer and has a 408 to send
\* (581-616).
CloseIsLast ==
  [][\A p \in Conn : last[p].connection = "close" => last'[p] = last[p]]_vars

\* A child of which the handler has run makes one more page at most: that one
\* says "close", and the child goes, whatever the client asked and sent on.
OnePageAfterSigint == \A p \in Conn : late[p] <= 1

\* The client of p never stops asking; or it never reads the page it is sent.
KeepsAsking(p) == []<>(inq[p] # <<>>)
NeverReads(p) == <>[]At(p, "send")

\* Nothing but its own client can keep a child: whatever the others do and
\* wherever signals come, it ends if its client stops asking (it has ten
\* seconds, and an error answer closes nothing by itself) and reads what it
\* is sent.  After SIGINT main ends too, if all the clients are such.
GracefulEnd ==
  /\ \A p \in Conn : (Alive(p) ~> ~Alive(p)) \/ KeepsAsking(p) \/ NeverReads(p)
  /\ \/ ~pcheck ~> ppc = "done"
     \/ \E p \in Conn : KeepsAsking(p) \/ NeverReads(p)
=============================================================================
