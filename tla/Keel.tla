-------------------------------- MODULE Keel --------------------------------
(***************************************************************************)
(* std.keel, stdlib/runtime/buraaq_server.c: buraaq_svc_run connects to    *)
(* Postgres, creates the tables and then serves one request after another  *)
(* on one thread, over a libpq session that it re-opens when it breaks.    *)
(*                                                                         *)
(* One api is registered, so a database is its table (or none yet) and the *)
(* rows in it, each with the request that wrote it.  Around the service    *)
(* run its clients, which may stop sending at any point or leave, and      *)
(* databases, which go down, come back, drop idle sessions and fall        *)
(* silent.  Three waits have no end of their own: for a database to take a *)
(* session, for its answer to a statement, and at the http listener while  *)
(* the https one always has another connection.                            *)
(***************************************************************************)
EXTENDS Integers, Sequences, FiniteSets

CONSTANTS
  Dbs,        \* the databases that connection strings name
  NoDb,       \* an unset connection string
  Requests,   \* one for each connection a client makes
  Shapes,     \* what each request may look like
  Configs,    \* what the program and its environment configure
  MaxEvents   \* bounds the outages, drops, silences, crowds and departures,
              \* for each configuration

Methods == {"GET", "POST", "PUT", "DELETE", "OPTIONS"}
Paths == {"page", "items", "item", "health", "other_api", "elsewhere"}
Listeners == {"https", "http"}

Shape == [method : Methods, path : Paths, via : Listeners, sent : {"nothing", "head", "all"},
          key : BOOLEAN, loopback : BOOLEAN, self : BOOLEAN]
Config == [store : Dbs \cup {NoDb}, env : Seq(Dbs), pglocal : Seq(Dbs),
           keyed : BOOLEAN, lock : BOOLEAN, listen : SUBSET Listeners]

ASSUME DbsAssumption == NoDb \notin Dbs
ASSUME ShapesAssumption == Shapes \in [Requests -> SUBSET Shape]
ASSUME ConfigsAssumption == \A c \in Configs : c \in Config
ASSUME MaxEventsAssumption == MaxEvents \in [Configs -> Nat]

Start == "start"       \* the job of connecting when run() begins
Schema == "schema"     \* the job of creating the table

ASSUME RequestsAssumption == Requests \cap {Start, Schema} = {}

NoLink == [db |-> NoDb, state |-> "none"]

VARIABLES
  config,
  up, table, rows, serial,   \* per database: reachable, its table, its rows
  mute,      \* the databases that take what is sent and do not answer
  crowd,     \* a connection without a request always waits at https
  link,      \* the libpq session: its database, and ok, dropped or broken
  last,      \* g_pg_last, the connection string that last worked
  pc,        \* where the service's only thread is
  job,       \* what it works on: Start, Schema or a request
  todo,      \* the connection strings buraaq_pg_connect has yet to try
  try,       \* which PQexec of buraaq_pg_exec comes next
  quoted,    \* buraaq_pg_quote gave the statement the values, not ''
  shape, stage, reply,       \* each request's content, progress and answer
  gone,      \* the requests whose client has closed its end
  events,
  cut,       \* history: the requests whose PQexec the session broke under
  calm       \* history: nothing disturbed the database since the job began

world == <<config, up, mute, crowd, events>>
data == <<table, rows, serial>>
session == <<link, last, todo, try, quoted>>
clients == <<shape, stage, reply, gone>>
vars == <<world, data, session, pc, job, clients, cut, calm>>

NoReply == [status |-> 0, ok |-> FALSE]
NoShape == [method |-> "none"]

Init ==
  /\ config \in Configs
  /\ up \in [Dbs -> BOOLEAN] /\ mute = {} /\ crowd = FALSE
  /\ table \in [Dbs -> BOOLEAN]
  /\ rows = [d \in Dbs |-> {}] /\ serial = [d \in Dbs |-> 1]
  /\ link = NoLink /\ last = NoDb
  /\ pc = "boot" /\ job = Start /\ todo = <<>> /\ try = 1
  /\ quoted = FALSE
  /\ shape = [r \in Requests |-> NoShape]
  /\ stage = [r \in Requests |-> "new"]
  /\ reply = [r \in Requests |-> NoReply] /\ gone = {}
  /\ events = 0 /\ cut = {} /\ calm = TRUE

-----------------------------------------------------------------------------
(* The surroundings *)

Event == events < MaxEvents[config] /\ events' = events + 1

Broken(d) == IF link.db = d /\ link.state = "ok"
             THEN [link EXCEPT !.state = "dropped"] ELSE link

GoesDown(d) ==
  /\ Event /\ up[d]
  /\ up' = [up EXCEPT ![d] = FALSE]
  /\ link' = Broken(d) /\ calm' = FALSE
  /\ UNCHANGED <<config, mute, crowd, data, last, todo, try, quoted, pc, job, clients, cut>>

ComesUp(d) ==
  /\ ~up[d]
  /\ up' = [up EXCEPT ![d] = TRUE]
  /\ UNCHANGED <<config, mute, crowd, events, data, session, pc, job, clients, cut, calm>>

\* It stops answering, and answers again.
FallsMute(d) ==
  /\ Event /\ d \notin mute
  /\ mute' = mute \cup {d}
  /\ UNCHANGED <<config, up, crowd, data, session, pc, job, clients, cut, calm>>

Speaks(d) ==
  /\ d \in mute
  /\ mute' = mute \ {d}
  /\ UNCHANGED <<config, up, crowd, events, data, session, pc, job, clients, cut, calm>>

\* A pooler closes the session; libpq notices at the next PQexec.
DropsIdle ==
  /\ Event /\ link.state = "ok"
  /\ link' = Broken(link.db)
  /\ calm' = (calm /\ pc = "accept")
  /\ UNCHANGED <<config, up, mute, crowd, data, last, todo, try, quoted, pc, job, clients,
                 cut>>

\* Connections that send nothing come over https faster than they are
\* closed, and then no more.
Crowds ==
  /\ Event /\ ~crowd /\ "https" \in config.listen
  /\ crowd' = TRUE
  /\ UNCHANGED <<config, up, mute, data, session, pc, job, clients, cut, calm>>

Scatters ==
  /\ crowd /\ crowd' = FALSE
  /\ UNCHANGED <<config, up, mute, events, data, session, pc, job, clients, cut, calm>>

\* A client connects to a bound listener and sends all it will ever send.
Arrive(r) ==
  /\ stage[r] = "new" /\ pc # "dead"
  /\ \E s \in Shapes[r] : /\ s.via \in config.listen
                       /\ shape' = [shape EXCEPT ![r] = s]
  /\ stage' = [stage EXCEPT ![r] = "waiting"]
  /\ UNCHANGED <<world, data, session, pc, job, reply, gone, cut, calm>>

\* It closes its end before it has its answer.
Leaves(r) ==
  /\ Event /\ stage[r] = "waiting" /\ r \notin gone
  /\ gone' = gone \cup {r}
  /\ UNCHANGED <<config, up, mute, crowd, data, session, pc, job, shape, stage, reply, cut, calm>>

-----------------------------------------------------------------------------
(* The libpq session *)

Alive == link.state \in {"ok", "dropped"}       \* pg_alive

\* What buraaq_pg_connect tries, in order.
Candidates(first) ==
  LET explicit == (IF first = NoDb THEN <<>> ELSE <<first>>) \o config.env
  IN IF explicit = <<>> THEN config.pglocal ELSE explicit

\* conn_write delivers the answer, or fails within 3 s; nobody asks which.
Delivers(status, ok) ==
  /\ job \notin gone
  /\ reply' = [reply EXCEPT ![job] = [status |-> status, ok |-> ok]]
  /\ stage' = [stage EXCEPT ![job] = "served"]
  /\ pc' = "accept"

LosesAnswer ==
  /\ stage' = [stage EXCEPT ![job] = "dropped"]
  /\ pc' = "accept"
  /\ UNCHANGED reply

\* Nothing sets SIGPIPE aside: a write to a client that has gone may end the
\* process, and the kernel closes every connection.
Dies ==
  /\ job \in gone
  /\ stage' = [r \in Requests |-> IF stage[r] = "waiting" THEN "dropped" ELSE stage[r]]
  /\ pc' = "dead"
  /\ UNCHANGED reply

\* buraaq_http_reply and buraaq_http_close.
Answers(status, ok) ==
  /\ Delivers(status, ok) \/ LosesAnswer \/ Dies
  /\ UNCHANGED <<shape, gone>>

\* The end of buraaq_pg_exec, and what its caller does next.
Finish(ok) ==
  IF job = Schema THEN pc' = "listen" /\ UNCHANGED clients
  ELSE Answers(IF shape[job].method = "POST" /\ shape[job].path = "items" THEN 201 ELSE 200,
               ok)

\* A database that answers, if only by refusing.  libpq waits for ever for one
\* that does not: neither calls nor connection strings set a limit.
Answering(d) == up[d] => d \notin mute

\* One turn of the loop over the candidates: close, connect, look.
Connect ==
  /\ pc = "connect" /\ todo # <<>> /\ Answering(Head(todo))
  /\ IF up[Head(todo)]
     THEN /\ link' = [db |-> Head(todo), state |-> "ok"]
          /\ last' = Head(todo)
          /\ todo' = <<>>
          /\ IF job = Start THEN job' = Schema /\ pc' = "exec"
             ELSE pc' = "send" /\ UNCHANGED job
     ELSE link' = NoLink /\ todo' = Tail(todo) /\ UNCHANGED <<last, pc, job>>
  /\ UNCHANGED <<world, data, try, quoted, clients, cut, calm>>

\* A failed reconnection that the caller takes for a good one.
NoConnectionOk ==
  /\ pc = "connect" /\ todo = <<>>
  /\ IF job = Start THEN pc' = "listen" /\ UNCHANGED clients ELSE Finish(TRUE)
  /\ UNCHANGED <<world, data, session, job, cut, calm>>

\* No candidate answers.  At start the tables stay uncreated.
NoConnection ==
  /\ pc = "connect" /\ todo = <<>>
  /\ IF job = Start THEN pc' = "listen" /\ UNCHANGED clients ELSE Finish(FALSE)
  /\ UNCHANGED <<world, data, session, job, cut, calm>>

\* buraaq_pg_exec begins: reconnect first if libpq knows the session is gone.
Exec ==
  /\ pc = "exec"
  /\ try' = 1
  /\ IF Alive THEN pc' = "send" /\ UNCHANGED todo
     ELSE pc' = "connect" /\ todo' = Candidates(last)
  /\ UNCHANGED <<world, data, link, last, quoted, job, clients, cut, calm>>

\* A row holds what of its request's body came and was quoted.
Row(id, r) == [id |-> id, by |-> r,
               body |-> IF quoted THEN shape[r].sent ELSE "nothing"]
ItemOne(d) == {w \in rows[d] : w.id = 1}        \* the :id of the item path

\* What svc_handle made the statement for.
Statement(method, path) ==
  job # Schema /\ shape[job].method = method /\ shape[job].path = path

\* CREATE TABLE IF NOT EXISTS of svc_schema.
Creates(d) ==
  /\ job = Schema
  /\ table' = [table EXCEPT ![d] = TRUE]
  /\ UNCHANGED <<rows, serial>>

\* INSERT of svc_collection.
Inserts(d) ==
  /\ Statement("POST", "items") /\ table[d]
  /\ rows' = [rows EXCEPT ![d] = @ \cup {Row(serial[d], job)}]
  /\ serial' = [serial EXCEPT ![d] = @ + 1]
  /\ UNCHANGED table

\* UPDATE and DELETE of svc_item.
Updates(d) ==
  /\ Statement("PUT", "item") /\ table[d]
  /\ rows' = [rows EXCEPT ![d] = (@ \ ItemOne(d)) \cup {Row(1, job) : w \in ItemOne(d)}]
  /\ UNCHANGED <<table, serial>>

Deletes(d) ==
  /\ Statement("DELETE", "item") /\ table[d]
  /\ rows' = [rows EXCEPT ![d] = @ \ ItemOne(d)]
  /\ UNCHANGED <<table, serial>>

\* A SELECT, or a statement on a table that is not there.
Reads(d) ==
  /\ job # Schema
  /\ table[d] => ~ \/ Statement("POST", "items") \/ Statement("PUT", "item")
                   \/ Statement("DELETE", "item")
  /\ UNCHANGED data

\* What Postgres does with the job's statement.
Executed(d) == Creates(d) \/ Inserts(d) \/ Updates(d) \/ Deletes(d) \/ Reads(d)

Succeeds(d) == job = Schema \/ table[d] \/ shape[job].path = "health"

\* A second PQexec of a statement the first one already answered.
SendTwice ==
  /\ pc = "send" /\ link.state = "ok" /\ Answering(link.db)
  /\ Executed(link.db)
  /\ IF try = 1 THEN try' = 2 /\ UNCHANGED <<pc, clients>>
     ELSE Finish(Succeeds(link.db)) /\ UNCHANGED try
  /\ UNCHANGED <<world, link, last, todo, quoted, job, cut, calm>>

Send ==
  /\ pc = "send" /\ link.state = "ok" /\ Answering(link.db)
  /\ Executed(link.db)
  /\ Finish(Succeeds(link.db))
  /\ UNCHANGED <<world, session, job, cut, calm>>

\* One lost session and the statement is given up.
GiveUpAtOnce ==
  /\ Finish(FALSE)
  /\ UNCHANGED <<try, todo>>

\* After a session broke under the first PQexec: reconnect and do it again.
Again ==
  IF try = 1
  THEN try' = 2 /\ todo' = Candidates(last) /\ pc' = "connect" /\ UNCHANGED clients
  ELSE Finish(FALSE) /\ UNCHANGED <<try, todo>>

\* PQexec on a session that the server had dropped.
SendFindsDropped ==
  /\ pc = "send" /\ link.state = "dropped"
  /\ link' = [link EXCEPT !.state = "broken"]
  /\ Again
  /\ UNCHANGED <<world, data, last, quoted, job, cut, calm>>

\* The session breaks under PQexec, before or after the statement has run.
SendBreaks ==
  /\ pc = "send" /\ link.state = "ok" /\ Event
  /\ link' = [link EXCEPT !.state = "broken"]
  /\ Executed(link.db) \/ UNCHANGED data
  /\ cut' = cut \cup ({job} \cap Requests)
  /\ calm' = FALSE
  /\ Again
  /\ UNCHANGED <<config, up, mute, crowd, last, quoted, job>>

-----------------------------------------------------------------------------
(* The service: start, then accept, route and answer, for ever *)

RunBegins ==
  /\ pc = "boot"
  /\ todo' = Candidates(config.store)
  /\ pc' = "connect"
  /\ UNCHANGED <<world, data, link, last, try, quoted, job, clients, cut, calm>>

Listen ==
  /\ pc = "listen"
  /\ pc' = IF config.listen = {} THEN "stopped" ELSE "accept"
  /\ UNCHANGED <<world, data, session, job, clients, cut, calm>>

Waiting(l) == {r \in Requests : stage[r] = "waiting" /\ shape[r].via = l}

\* The next connection: buraaq_http_accept looks at the TLS listener first,
\* so that a crowd there keeps it from the other one.
IsNext(r) ==
  /\ pc = "accept"
  /\ \/ r \in Waiting("https")
     \/ r \in Waiting("http") /\ Waiting("https") = {} /\ ~crowd

\* A read with no timeout: a silent client holds the loop.
AcceptWaits(r) ==
  /\ IsNext(r) /\ shape[r].sent # "nothing"
  /\ job' = r
  /\ pc' = "route"
  /\ calm' = (last # NoDb /\ up[last])
  /\ UNCHANGED <<world, data, session, clients, cut>>

\* buraaq_http_accept with recv_http and parse_request: after 3 s without a
\* byte the read is over.  A connection that sent nothing is closed; a body
\* that stops is taken as it is.
Accept(r) ==
  /\ IsNext(r)
  /\ job' = r
  /\ IF shape[r].sent = "nothing"
     THEN stage' = [stage EXCEPT ![r] = "dropped"] /\ UNCHANGED pc
     ELSE pc' = "route" /\ UNCHANGED stage
  /\ calm' = (last # NoDb /\ up[last])
  /\ UNCHANGED <<world, data, session, shape, reply, gone, cut>>

IsWrite(s) == s.method \in {"POST", "PUT", "DELETE"}
IsApi(s) == s.path \in {"items", "item", "health", "other_api"}

\* A check of the Origin header that forgets where the peer is.
OriginIsEnough(s) ==
  \/ ~config.keyed \/ s.key
  \/ ~config.lock /\ s.self

\* svc_write_allowed.
WriteAllowed(s) ==
  \/ ~config.keyed \/ s.key
  \/ ~config.lock /\ s.loopback /\ s.self

Refused(s) == IsApi(s) /\ (IsWrite(s) \/ config.lock) /\ ~WriteAllowed(s)

\* svc_handle: the statuses it may answer at once; none means it asks Postgres.
Verdict(s) ==
  IF s.method = "OPTIONS" THEN {204}
  ELSE IF s.path = "health" THEN {}
  ELSE IF Refused(s) THEN {401}
  ELSE IF s.path = "page" THEN {200, 404}
  ELSE IF s.path = "items" THEN IF s.method \in {"GET", "POST"} THEN {} ELSE {405}
  ELSE IF s.path = "item" THEN IF s.method \in {"GET", "PUT", "DELETE"} THEN {} ELSE {405}
  ELSE {404}

\* The values are quoted while the statement is put together, before
\* buraaq_pg_exec looks at the session: with no PGconn they come out empty.
Route ==
  /\ pc = "route"
  /\ quoted' = (link.state # "none")
  /\ IF Verdict(shape[job]) = {} THEN pc' = "exec" /\ UNCHANGED clients
     ELSE \E status \in Verdict(shape[job]) : Answers(status, FALSE)
  /\ UNCHANGED <<world, data, link, last, todo, try, job, cut, calm>>

Service ==
  \/ RunBegins \/ Listen \/ Route
  \/ Connect \/ NoConnection \/ Exec \/ Send \/ SendFindsDropped \/ SendBreaks
  \/ \E r \in Requests : Accept(r)

Next ==
  \/ Service
  \/ \E d \in Dbs : GoesDown(d) \/ ComesUp(d) \/ FallsMute(d) \/ Speaks(d)
  \/ DropsIdle \/ Crowds \/ Scatters
  \/ \E r \in Requests : Arrive(r) \/ Leaves(r)

(* The service's thread runs, its reads and writes time out.  Databases    *)
(* and clients owe it nothing.                                             *)
Spec == Init /\ [][Next]_vars /\ WF_vars(Service)

-----------------------------------------------------------------------------
(* Properties *)

\* Every variable has its type; a thread that sends has a session to send on.
TypeOK ==
  /\ config \in Configs /\ up \in [Dbs -> BOOLEAN] /\ events \in 0 .. MaxEvents[config]
  /\ mute \subseteq Dbs /\ crowd \in BOOLEAN /\ gone \subseteq Requests
  /\ table \in [Dbs -> BOOLEAN] /\ serial \in [Dbs -> Nat \ {0}]
  /\ \A d \in Dbs : \A w \in rows[d] :
       w.id \in 1 .. serial[d] - 1 /\ w.by \in Requests /\ w.body \in {"nothing", "head", "all"}
  /\ link \in [db : Dbs \cup {NoDb}, state : {"none", "ok", "dropped", "broken"}]
  /\ last \in Dbs \cup {NoDb} /\ todo \in Seq(Dbs) /\ try \in {1, 2}
  /\ quoted \in BOOLEAN
  /\ pc \in {"boot", "connect", "exec", "send", "listen", "accept",
             "route", "stopped", "dead"}
  /\ job \in {Start, Schema} \cup Requests
  /\ \A r \in Requests : shape[r] \in Shapes[r] \cup {NoShape}
  /\ stage \in [Requests -> {"new", "waiting", "served", "dropped"}]
  /\ reply \in [Requests -> [status : {0, 200, 201, 204, 401, 404, 405}, ok : BOOLEAN]]
  /\ cut \subseteq Requests /\ calm \in BOOLEAN
  /\ pc = "send" => Alive /\ link.db = last

\* The rows that request r has written, each with its database.
Copies(r) == {c \in Dbs \X UNION {rows[d] : d \in Dbs} :
                c[2] \in rows[c[1]] /\ c[2].by = r}
Rewrites(r) == shape[r] # NoShape /\ shape[r].path = "item"
                 /\ shape[r].method \in {"PUT", "DELETE"}

(* A client that is told its insert succeeded finds it in a database,      *)
(* unless a later request rewrote the row: reconnecting never turns a lost *)
(* statement into a success. (buraaq_pg_exec, svc_collection)              *)
AckMeansStored ==
  \A r \in Requests :
    reply[r].status = 201 /\ reply[r].ok
      => Copies(r) # {} \/ \E q \in Requests : Rewrites(q)

(* buraaq_pg_exec runs a statement a second time only when the session     *)
(* broke under the first, and never a third time.                          *)
DuplicateNeedsCut ==
  \A r \in Requests :
    shape[r] # NoShape /\ shape[r].method = "POST"
      => Cardinality(Copies(r)) <= IF r \in cut THEN 2 ELSE 1

(* No row carries the mark of a client that could not show the key, except *)
(* a page on the loopback while reads are not locked; and under the lock   *)
(* no answer of the api, but for health, goes to a client without the key. *)
Authorised ==
  \A r \in Requests :
    (config.keyed /\ shape[r] # NoShape /\ ~shape[r].key) =>
      /\ Copies(r) # {} => ~config.lock /\ shape[r].loopback /\ shape[r].self
      /\ reply[r].ok /\ config.lock => shape[r].path = "health"

(* A session that a pooler dropped between two requests is re-opened       *)
(* unseen: if the last database is up when a request is accepted and stays *)
(* undisturbed until its answer, a statement on an existing table succeeds.*)
IdleDropUnseen ==
  [][\A r \in Requests :
       (stage'[r] = "served" /\ stage[r] # "served" /\ calm /\ calm'
          /\ Verdict(shape[r]) = {} /\ (shape[r].path = "health" \/ table[last]))
         => reply'[r].ok]_vars

(* Every connection that reaches a listener is answered or closed in the   *)
(* end, whatever its client leaves unsent, however databases go and come,  *)
(* and whoever has left: unless a database falls silent for good, since no *)
(* call of libpq has a timeout, or a crowd at the https listener never     *)
(* ends, since accept looks there first. (buraaq_http_accept, recv_http,   *)
(* buraaq_pg_exec)                                                         *)
EveryRequestEnds ==
  <>[](mute = {} /\ ~crowd) =>
    \A r \in Requests :
      stage[r] = "waiting" ~> stage[r] \in {"served", "dropped"}

(* A row holds the values of its request's JSON body, whenever the whole   *)
(* body arrived.                                                           *)
InsertsTheBody ==
  \A d \in Dbs : \A w \in rows[d] : shape[w.by].sent = "all" => w.body = "all"
=============================================================================
