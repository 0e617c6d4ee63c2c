---------------------------- MODULE MCHttpServer ----------------------------
(***************************************************************************)
(* A small instance of HttpServer for TLC: a www/ with one name of each    *)
(* kind, and requests that tell the branches of parse_request apart.       *)
(***************************************************************************)
EXTENDS HttpServer, TLC

CONSTANTS p1, p2        \* model values: connections

SmallSite == "a.html" :> "file" @@ "dir" :> "html" @@ "old" :> "htm"
             @@ "sup" :> "dotless" @@ "no.txt" :> "absent"
SiteNames == DOMAIN SmallSite
Sizes == [u \in SiteNames |-> IF u = "dir" THEN 2 ELSE 1]

Get(u, version, connection) ==
  [method |-> "GET", uri |-> u, dots |-> FALSE, version |-> version,
   connection |-> connection]
Asks == {Get("a.html", "1.0", "none"), Get("dir", "1.1", "none"),
         Get("old", "1.1", "Close"), Get("sup", "1.0", "close"),
         [Get("no.txt", "1.1", "close") EXCEPT !.dots = TRUE],
         [Get("no.txt", "2", "none") EXCEPT !.method = "POST"],
         Get("no.txt", "2", "close"), Malformed}

May(conns, asks, queue, signals) ==
  Start([conns |-> conns, asks |-> asks, queue |-> queue, signals |-> signals])
MCInit ==
  \/ May({p1}, Asks, 1, 2)                              \* everything, one child
  \/ May({p1}, {Get("dir", "1.1", "none"),              \* requests read at once
               Get("old", "1.1", "close"), Malformed}, 2, 0)
  \/ May({p1, p2}, {Get("dir", "1.1", "none")}, 1, 1)   \* two children
MCSpec == MCInit /\ [][Next]_vars /\ Fairness
=============================================================================
