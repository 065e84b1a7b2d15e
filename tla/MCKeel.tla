------------------------------- MODULE MCKeel -------------------------------
(* Two databases, so that a reconnection can choose the wrong one, and the *)
(* requests that tell who may store what: whole, cut or empty, with the    *)
(* key or without, over either listener.                                   *)
EXTENDS Keel, TLC

CONSTANTS d1, d2, r1, r2

Ask(method, path) ==
  [method |-> method, path |-> path, via |-> "https", sent |-> "all",
   key |-> TRUE, loopback |-> FALSE, self |-> FALSE]
ByHttp(s) == [s EXCEPT !.via = "http"]

Post == Ask("POST", "items")
Page == [Post EXCEPT !.key = FALSE, !.self = TRUE]    \* a script of the page

Asked ==
  (r1 :> {Post, [Page EXCEPT !.loopback = TRUE, !.method = "PUT", !.path = "item"],
          [ByHttp(Ask("GET", "items")) EXCEPT !.sent = "nothing"]}) @@
  (r2 :> {ByHttp(Post), [Page EXCEPT !.sent = "head"], Ask("DELETE", "item"),
          [ByHttp(Ask("GET", "items")) EXCEPT !.key = FALSE]})

Conf(store, env, lock) ==
  [store |-> store, env |-> env, pglocal |-> <<d2>>, keyed |-> TRUE,
   lock |-> lock, listen |-> {"https", "http"}]

Open == {Conf(d1, <<d2>>, FALSE), [Conf(d1, <<>>, FALSE) EXCEPT !.listen = {}]}
Configured == Open \cup {Conf(NoDb, <<>>, TRUE)}

\* Under the lock one thing goes wrong, elsewhere a retry may fail as well.
Allowed == [c \in Configured |-> IF c \in Open THEN 2 ELSE 1]
=============================================================================
