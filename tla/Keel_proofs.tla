----------------------------- MODULE Keel_proofs -----------------------------
(***************************************************************************)
(* Proofs about Keel, for every set of databases, requests, shapes and     *)
(* configurations, and any number of outages.                              *)
(***************************************************************************)
EXTENDS Keel, FiniteSetTheorems, SequenceTheorems, TLAPS

RowSet == [id : Nat, by : Requests, body : {"nothing", "head", "all"}]
Replies == [status : {0, 200, 201, 204, 401, 404, 405}, ok : BOOLEAN]

-----------------------------------------------------------------------------
(* Types *)

DataTypes ==
  /\ table \in [Dbs -> BOOLEAN] /\ serial \in [Dbs -> Nat \ {0}]
  /\ rows \in [Dbs -> SUBSET RowSet]
  /\ \A d \in Dbs : \A w \in rows[d] : w.id \in 1 .. serial[d] - 1

WorldTypes ==
  /\ config \in Configs /\ up \in [Dbs -> BOOLEAN] /\ events \in 0 .. MaxEvents[config]
  /\ mute \in SUBSET Dbs /\ crowd \in BOOLEAN
  /\ DataTypes

SessionTypes ==
  /\ link \in [db : Dbs \cup {NoDb}, state : {"none", "ok", "dropped", "broken"}]
  /\ last \in Dbs \cup {NoDb} /\ todo \in Seq(Dbs) /\ try \in {1, 2}
  /\ quoted \in BOOLEAN
  /\ Alive => link.db = last /\ last \in Dbs
  /\ pc = "send" => Alive

ServiceTypes ==
  /\ pc \in {"boot", "connect", "exec", "send", "listen", "accept", "route", "stopped",
             "dead"}
  /\ job \in {Start, Schema} \cup Requests
  /\ pc = "boot" => job = Start
  /\ pc \in {"exec", "send"} => job # Start
  /\ pc = "route" => job \in Requests
  /\ shape \in [Requests -> Shape \cup {NoShape}]
  /\ \A r \in Requests : shape[r] \in Shapes[r] \cup {NoShape}
  /\ stage \in [Requests -> {"new", "waiting", "served", "dropped"}]
  /\ reply \in [Requests -> Replies] /\ gone \in SUBSET Requests
  /\ cut \in SUBSET Requests /\ calm \in BOOLEAN

\* The job of a thread at work is a request that waits, with its shape; what
\* has not come has neither shape nor answer.
JobWaits ==
  /\ \A r \in Requests :
       /\ stage[r] = "new" => shape[r] = NoShape /\ reply[r] = NoReply
       /\ stage[r] # "new" => shape[r] \in Shape
       /\ stage[r] = "waiting" => reply[r] = NoReply
  /\ (pc \in {"route", "exec", "connect", "send"} /\ job \in Requests)
       => stage[job] = "waiting"

\* Only a request that the router lets through to Postgres gets there.
AtPostgres == pc \in {"exec", "connect", "send"} /\ job \in Requests
Routed == AtPostgres => Verdict(shape[job]) = {}

Base == WorldTypes /\ SessionTypes /\ ServiceTypes /\ JobWaits /\ Routed

\* Shapes are told from the absence of one by their method.
LEMMA ShapeFacts ==
  /\ NoShape \notin Shape
  /\ \A r \in Requests : Shapes[r] \subseteq Shape
  BY ShapesAssumption DEF NoShape, Shape, Methods

LEMMA JobKinds ==
  Start \notin Requests /\ Schema \notin Requests /\ Start # Schema
  BY RequestsAssumption DEF Start, Schema

\* The connection strings to try name databases.
LEMMA CandidatesAreDbs ==
  ASSUME config \in Configs, NEW first \in Dbs \cup {NoDb}
  PROVE  Candidates(first) \in Seq(Dbs)
  <1>1. config.env \in Seq(Dbs) /\ config.pglocal \in Seq(Dbs)
    BY ConfigsAssumption DEF Config
  <1>2. (IF first = NoDb THEN <<>> ELSE <<first>>) \in Seq(Dbs)
    BY EmptySeq
  <1>3. ((IF first = NoDb THEN <<>> ELSE <<first>>) \o config.env) \in Seq(Dbs)
    BY <1>1, <1>2, ConcatProperties
  <1>4. QED
    BY <1>1, <1>3 DEF Candidates

\* A statement keeps the database well typed.
LEMMA ExecutedData ==
  ASSUME DataTypes, ServiceTypes, JobWaits, NEW d \in Dbs, job # Start,
         pc = "send", Executed(d)
  PROVE  DataTypes'
  <1> USE DEF DataTypes
  <1>1. CASE Creates(d)
    BY <1>1 DEF Creates
  <1>2. CASE Inserts(d)
    <2>1. /\ rows' = [rows EXCEPT ![d] = @ \cup {Row(serial[d], job)}]
          /\ serial' = [serial EXCEPT ![d] = @ + 1] /\ UNCHANGED table
          /\ job \in Requests
      BY <1>2 DEF Inserts, Statement, ServiceTypes
    <2>2. shape[job] \in Shape
      BY <2>1 DEF JobWaits
    <2>3. /\ Row(serial[d], job) \in RowSet
          /\ Row(serial[d], job).id = serial[d]
      BY <2>1, <2>2 DEF Row, RowSet, Shape
    <2>4. rows' \in [Dbs -> SUBSET RowSet] /\ serial' \in [Dbs -> Nat \ {0}]
      BY <2>1, <2>3
    <2>5. ASSUME NEW e \in Dbs, NEW w \in rows'[e]
          PROVE  w.id \in 1 .. serial'[e] - 1
      <3>1. CASE e # d
        BY <2>1, <2>5, <3>1
      <3>2. CASE e = d /\ w \in rows[d]
        <4>1. serial'[d] = serial[d] + 1 /\ serial[d] \in Nat
          BY <2>1
        <4>2. w.id \in 1 .. serial[d] - 1
          BY <3>2
        <4>3. QED
          BY <3>2, <4>1, <4>2
      <3>3. CASE e = d /\ w = Row(serial[d], job)
        BY <2>1, <2>3, <3>3
      <3>4. QED
        BY <2>1, <2>5, <3>1, <3>2, <3>3
    <2>6. QED
      BY <2>1, <2>4, <2>5
  <1>3. CASE Updates(d)
    <2>1. /\ rows' = [rows EXCEPT ![d] =
                        (@ \ ItemOne(d)) \cup {Row(1, job) : w \in ItemOne(d)}]
          /\ UNCHANGED <<table, serial>> /\ job \in Requests
      BY <1>3 DEF Updates, Statement, ServiceTypes
    <2>2. shape[job] \in Shape
      BY <2>1 DEF JobWaits
    <2>3. Row(1, job) \in RowSet /\ Row(1, job).id = 1
      BY <2>1, <2>2 DEF Row, RowSet, Shape
    <2>4. rows' \in [Dbs -> SUBSET RowSet]
      BY <2>1, <2>3
    <2>5. ASSUME NEW e \in Dbs, NEW w \in rows'[e]
          PROVE  w.id \in 1 .. serial'[e] - 1
      <3>1. CASE e = d /\ w = Row(1, job) /\ ItemOne(d) # {}
        <4>1. PICK v \in rows[d] : v.id = 1
          BY <3>1 DEF ItemOne
        <4>2. QED
          BY <2>1, <2>3, <3>1, <4>1
      <3>2. CASE w \in rows[e]
        BY <2>1, <3>2
      <3>3. QED
        BY <2>1, <2>5, <3>1, <3>2
    <2>6. QED
      BY <2>1, <2>4, <2>5
  <1>4. CASE Deletes(d)
    BY <1>4 DEF Deletes
  <1>5. CASE Reads(d)
    BY <1>5 DEF Reads, data
  <1>6. QED
    BY <1>1, <1>2, <1>3, <1>4, <1>5 DEF Executed

LEMMA SameData == ASSUME DataTypes, UNCHANGED data PROVE DataTypes'
  BY DEF DataTypes, data

LEMMA SameWorld == ASSUME WorldTypes, UNCHANGED <<world, data>> PROVE WorldTypes'
  BY SameData DEF WorldTypes, world

\* What the router said of a request it says of it later.
LEMMA SameRouted ==
  ASSUME Routed, UNCHANGED config,
         AtPostgres' => AtPostgres /\ job' = job /\ shape'[job] = shape[job]
  PROVE  Routed'
  BY DEF Routed, AtPostgres, Verdict, Refused, WriteAllowed, IsApi, IsWrite

\* The thread stays where it is with what it does.
LEMMA SameJob ==
  ASSUME ServiceTypes, JobWaits, Routed, UNCHANGED <<config, pc, job, clients>>,
         cut' \in SUBSET Requests, calm' \in BOOLEAN
  PROVE  ServiceTypes' /\ JobWaits' /\ Routed'
  <1>1. ServiceTypes' /\ JobWaits'
    BY DEF ServiceTypes, JobWaits, clients
  <1>2. Routed'
    BY SameRouted DEF AtPostgres, clients
  <1>3. QED
    BY <1>1, <1>2

\* The thread goes on with the same job.
LEMMA JobGoesOn ==
  ASSUME ServiceTypes, JobWaits, Routed, UNCHANGED <<config, job, clients>>,
         cut' \in SUBSET Requests, calm' \in BOOLEAN,
         \/ pc \in {"exec", "connect", "send"} /\ pc' \in {"exec", "connect", "send"}
         \/ job \notin Requests /\ pc' = "connect"
         \/ pc' \in {"listen", "accept", "stopped"},
         pc' \in {"exec", "send"} => job # Start
  PROVE  ServiceTypes' /\ JobWaits' /\ Routed'
  <1>1. ServiceTypes' /\ JobWaits'
    BY DEF ServiceTypes, JobWaits, clients
  <1>2. Routed'
    BY SameRouted DEF AtPostgres, clients
  <1>3. QED
    BY <1>1, <1>2

\* A request that waits may be closed with the service's process; otherwise
\* what others do leaves its progress and its answer alone.
Quiet(r) ==
  /\ shape'[r] = shape[r] /\ reply'[r] = reply[r]
  /\ stage'[r] = stage[r] \/ (stage[r] = "waiting" /\ stage'[r] = "dropped")

\* An answer ends the job's wait, whether or not its client gets it.
LEMMA AnswersKeep ==
  ASSUME ServiceTypes, JobWaits, job \in Requests, stage[job] = "waiting",
         NEW status \in {200, 201, 204, 401, 404, 405}, NEW ok \in BOOLEAN,
         Answers(status, ok), UNCHANGED job,
         cut' \in SUBSET Requests, calm' \in BOOLEAN
  PROVE  /\ ServiceTypes' /\ JobWaits' /\ pc' \in {"accept", "dead"} /\ shape' = shape
         /\ \A r \in Requests : r # job => Quiet(r)
         /\ \/ stage'[job] = "served" /\ reply'[job] = [status |-> status, ok |-> ok]
            \/ stage'[job] = "dropped" /\ reply'[job] = NoReply
  <1>a. shape' = shape /\ gone' = gone
    BY DEF Answers
  <1>1. CASE Delivers(status, ok)
    <2>1. /\ reply' = [reply EXCEPT ![job] = [status |-> status, ok |-> ok]]
          /\ stage' = [stage EXCEPT ![job] = "served"]
          /\ pc' = "accept"
      BY <1>1 DEF Delivers
    <2>2. ServiceTypes'
      BY <1>a, <2>1 DEF ServiceTypes, Replies
    <2>3. JobWaits'
      BY <1>a, <2>1 DEF JobWaits, ServiceTypes
    <2>4. QED
      BY <1>a, <2>1, <2>2, <2>3 DEF ServiceTypes, Quiet
  <1>2. CASE LosesAnswer
    <2>1. /\ stage' = [stage EXCEPT ![job] = "dropped"]
          /\ pc' = "accept" /\ reply' = reply
      BY <1>2 DEF LosesAnswer
    <2>2. ServiceTypes'
      BY <1>a, <2>1 DEF ServiceTypes
    <2>3. JobWaits'
      BY <1>a, <2>1 DEF JobWaits, ServiceTypes
    <2>4. QED
      BY <1>a, <2>1, <2>2, <2>3 DEF ServiceTypes, Quiet, JobWaits
  <1>3. CASE Dies
    <2>1. /\ stage' = [r \in Requests |->
                         IF stage[r] = "waiting" THEN "dropped" ELSE stage[r]]
          /\ pc' = "dead" /\ reply' = reply
      BY <1>3 DEF Dies
    <2>2. ServiceTypes'
      BY <1>a, <2>1 DEF ServiceTypes
    <2>3. JobWaits'
      BY <1>a, <2>1 DEF JobWaits, ServiceTypes
    <2>4. QED
      BY <1>a, <2>1, <2>2, <2>3 DEF ServiceTypes, Quiet, JobWaits
  <1>4. QED
    BY <1>1, <1>2, <1>3 DEF Answers

\* So does the end of buraaq_pg_exec.
LEMMA FinishKeeps ==
  ASSUME ServiceTypes, JobWaits, pc \in {"connect", "send"}, job # Start,
         NEW ok \in BOOLEAN, Finish(ok), UNCHANGED job,
         cut' \in SUBSET Requests, calm' \in BOOLEAN
  PROVE  /\ ServiceTypes' /\ JobWaits' /\ pc' \in {"accept", "listen", "dead"}
         /\ shape' = shape
         /\ \A r \in Requests : r # job => Quiet(r)
         /\ job \in Requests =>
              \/ /\ stage'[job] = "served"
                 /\ \E status \in {200, 201} :
                      /\ status = 201 =>
                           shape[job].method = "POST" /\ shape[job].path = "items"
                      /\ reply'[job] = [status |-> status, ok |-> ok]
              \/ stage'[job] = "dropped" /\ reply'[job] = NoReply
  <1>1. CASE job = Schema
    <2>1. pc' = "listen" /\ UNCHANGED clients /\ job \notin Requests
      BY <1>1, JobKinds DEF Finish
    <2>2. ServiceTypes' /\ JobWaits'
      BY <2>1, JobKinds DEF ServiceTypes, JobWaits, clients
    <2>3. QED
      BY <2>1, <2>2 DEF clients, Quiet
  <1>2. CASE job # Schema
    <2>1. job \in Requests /\ stage[job] = "waiting"
      BY <1>2 DEF ServiceTypes, JobWaits
    <2>2. PICK status \in {200, 201} :
            /\ status = 201 => shape[job].method = "POST" /\ shape[job].path = "items"
            /\ Answers(status, ok)
      BY <1>2 DEF Finish
    <2>3. /\ ServiceTypes' /\ JobWaits' /\ pc' \in {"accept", "dead"} /\ shape' = shape
          /\ \A r \in Requests : r # job => Quiet(r)
          /\ \/ stage'[job] = "served" /\ reply'[job] = [status |-> status, ok |-> ok]
             \/ stage'[job] = "dropped" /\ reply'[job] = NoReply
      BY <2>1, <2>2, AnswersKeep
    <2>4. QED
      BY <2>2, <2>3
  <1>3. QED
    BY <1>1, <1>2

\* A second try, or the end of buraaq_pg_exec.
LEMMA AgainKeeps ==
  ASSUME WorldTypes, SessionTypes, ServiceTypes, JobWaits, Routed, pc = "send",
         Again, UNCHANGED <<job, config, last>>,
         cut' \in SUBSET Requests, calm' \in BOOLEAN
  PROVE  /\ ServiceTypes' /\ JobWaits' /\ Routed'
         /\ pc' # "send" /\ try' \in {1, 2} /\ todo' \in Seq(Dbs)
  <1>1. CASE try = 1
    <2>1. try' = 2 /\ todo' = Candidates(last) /\ pc' = "connect" /\ UNCHANGED clients
      BY <1>1 DEF Again
    <2>2. Candidates(last) \in Seq(Dbs)
      BY CandidatesAreDbs DEF WorldTypes, SessionTypes
    <2>3. QED
      BY <2>1, <2>2, JobGoesOn
  <1>2. CASE try # 1
    <2>1. Finish(FALSE) /\ UNCHANGED <<try, todo>>
      BY <1>2 DEF Again
    <2>2. job # Start
      BY DEF ServiceTypes
    <2>3. ServiceTypes' /\ JobWaits' /\ pc' \in {"accept", "listen", "dead"}
      BY <2>1, <2>2, FinishKeeps
    <2>4. QED
      BY <2>1, <2>3 DEF SessionTypes, Routed, AtPostgres
  <1>3. QED
    BY <1>1, <1>2

LEMMA InitBase == Init => Base
  <1> SUFFICES ASSUME Init PROVE Base
    OBVIOUS
  <1>0. DataTypes
    BY DEF Init, DataTypes
  <1>1. WorldTypes
    <2>1. /\ config \in Configs /\ up \in [Dbs -> BOOLEAN] /\ events = 0
          /\ mute = {} /\ crowd = FALSE
      BY DEF Init
    <2>2. crowd \in BOOLEAN
      BY <2>1, Zenon
    <2>3. events \in 0 .. MaxEvents[config]
      BY <2>1, MaxEventsAssumption
    <2>4. QED
      BY <1>0, <2>1, <2>2, <2>3 DEF WorldTypes
  <1>2. SessionTypes
    BY EmptySeq DEF Init, SessionTypes, NoLink, Alive
  <1>3. ServiceTypes
    BY DEF Init, ServiceTypes, NoReply, Replies
  <1>4. JobWaits /\ Routed
    BY JobKinds DEF Init, JobWaits, Routed, AtPostgres
  <1>5. QED
    BY <1>1, <1>2, <1>3, <1>4 DEF Base

\* The steps of the databases and the clients.
Around ==
  \/ \E d \in Dbs : GoesDown(d) \/ ComesUp(d) \/ FallsMute(d) \/ Speaks(d)
  \/ DropsIdle \/ Crowds \/ Scatters
  \/ \E r \in Requests : Arrive(r) \/ Leaves(r)

\* Those that only change who answers, who comes and who has left.
Aside == (\E d \in Dbs : FallsMute(d) \/ Speaks(d)) \/ Crowds \/ Scatters
           \/ \E r \in Requests : Leaves(r)

LEMMA AsideSteps ==
  ASSUME WorldTypes, ServiceTypes, Aside
  PROVE  /\ UNCHANGED <<config, up, data, session, pc, job, shape, stage, reply, cut, calm>>
         /\ events' \in 0 .. MaxEvents[config] /\ mute' \in SUBSET Dbs /\ crowd' \in BOOLEAN
         /\ gone' \in SUBSET Requests
  <1>1. UNCHANGED <<config, up, data, session, pc, job, shape, stage, reply, cut, calm>>
    BY DEF Aside, FallsMute, Speaks, Crowds, Scatters, Leaves, clients
  <1>2. events' = events \/ Event
    BY DEF Aside, FallsMute, Speaks, Crowds, Scatters, Leaves
  <1>3. events' \in 0 .. MaxEvents[config]
    BY <1>2, MaxEventsAssumption DEF Event, WorldTypes
  <1>4. mute' \in SUBSET Dbs
    BY DEF Aside, FallsMute, Speaks, Crowds, Scatters, Leaves, WorldTypes
  <1>5. crowd' = TRUE \/ crowd' = FALSE \/ crowd' = crowd
    BY Zenon DEF Aside, FallsMute, Speaks, Crowds, Scatters, Leaves
  <1>6. crowd' \in BOOLEAN
    BY <1>5, Zenon DEF WorldTypes
  <1>7. gone' \in SUBSET Requests
    BY DEF Aside, FallsMute, Speaks, Crowds, Scatters, Leaves, clients, ServiceTypes
  <1>8. QED
    BY <1>1, <1>3, <1>4, <1>6, <1>7

LEMMA SurroundingsKeepBase ==
  ASSUME Base, Around
  PROVE  Base'
  <1>a. WorldTypes /\ SessionTypes /\ ServiceTypes /\ JobWaits /\ Routed
    BY DEF Base
  <1>1. ASSUME NEW d \in Dbs, GoesDown(d) PROVE Base'
    <2>1. /\ up' = [up EXCEPT ![d] = FALSE] /\ link' = Broken(d) /\ calm' = FALSE
          /\ Event
          /\ UNCHANGED <<config, mute, crowd, data, last, todo, try, quoted, pc, job, clients,
                         cut>>
      BY <1>1 DEF GoesDown
    <2>2. WorldTypes'
      BY <1>a, <2>1, MaxEventsAssumption, SameData DEF Event, WorldTypes
    <2>3. SessionTypes'
      BY <1>a, <2>1 DEF Broken, SessionTypes, Alive
    <2>4. cut' \in SUBSET Requests
      BY <1>a, <2>1 DEF ServiceTypes
    <2>5. QED
      BY <1>a, <2>1, <2>2, <2>3, <2>4, SameJob DEF Base
  <1>2. ASSUME NEW d \in Dbs, ComesUp(d) PROVE Base'
    <2>1. /\ up' = [up EXCEPT ![d] = TRUE]
          /\ UNCHANGED <<config, mute, crowd, events, data, session, pc, job, clients, cut,
                         calm>>
      BY <1>2 DEF ComesUp
    <2>2. WorldTypes'
      BY <1>a, <2>1, SameData DEF WorldTypes
    <2>3. SessionTypes'
      BY <1>a, <2>1 DEF session, SessionTypes, Alive
    <2>4. cut' \in SUBSET Requests /\ calm' \in BOOLEAN
      BY <1>a, <2>1 DEF ServiceTypes
    <2>5. QED
      BY <1>a, <2>1, <2>2, <2>3, <2>4, SameJob DEF Base
  <1>3. CASE DropsIdle
    <2>1. /\ link' = Broken(link.db) /\ Event
          /\ UNCHANGED <<config, up, mute, crowd, data, last, todo, try, quoted, pc, job, clients,
                         cut>>
          /\ calm' \in BOOLEAN
      BY <1>a, <1>3 DEF DropsIdle, ServiceTypes
    <2>2. WorldTypes'
      BY <1>a, <2>1, MaxEventsAssumption, SameData DEF Event, WorldTypes
    <2>3. SessionTypes'
      BY <1>a, <2>1 DEF Broken, SessionTypes, Alive
    <2>4. cut' \in SUBSET Requests
      BY <1>a, <2>1 DEF ServiceTypes
    <2>5. QED
      BY <1>a, <2>1, <2>2, <2>3, <2>4, SameJob DEF Base
  <1>4. ASSUME NEW r \in Requests, Arrive(r) PROVE Base'
    <2>1. PICK s \in Shapes[r] : shape' = [shape EXCEPT ![r] = s]
      BY <1>4 DEF Arrive
    <2>2. /\ stage[r] = "new" /\ stage' = [stage EXCEPT ![r] = "waiting"]
          /\ UNCHANGED <<world, data, session, pc, job, reply, gone, cut, calm>>
      BY <1>4 DEF Arrive
    <2>3. s \in Shape
      BY ShapeFacts
    <2>4. WorldTypes' /\ SessionTypes'
      BY <1>a, <2>2, SameWorld DEF SessionTypes, session, Alive
    <2>5. ServiceTypes'
      BY <1>a, <2>1, <2>2, <2>3 DEF ServiceTypes
    <2>6. JobWaits'
      BY <1>a, <2>1, <2>2, <2>3 DEF JobWaits, ServiceTypes
    <2>7. Routed'
      <3>1. AtPostgres => job # r
        BY <1>a, <2>2 DEF AtPostgres, JobWaits
      <3>2. QED
        BY <1>a, <2>1, <2>2, <3>1, SameRouted DEF AtPostgres, ServiceTypes, world
    <2>8. QED
      BY <2>4, <2>5, <2>6, <2>7 DEF Base
  <1>5. CASE Aside
    <2>1. /\ UNCHANGED <<config, up, data, session, pc, job, shape, stage, reply, cut, calm>>
          /\ events' \in 0 .. MaxEvents[config] /\ mute' \in SUBSET Dbs /\ crowd' \in BOOLEAN
          /\ gone' \in SUBSET Requests
      BY <1>a, <1>5, AsideSteps
    <2>2. WorldTypes' /\ SessionTypes'
      BY <1>a, <2>1, SameData DEF WorldTypes, SessionTypes, session, Alive
    <2>3. ServiceTypes' /\ JobWaits'
      BY <1>a, <2>1 DEF ServiceTypes, JobWaits
    <2>4. Routed'
      BY <1>a, <2>1, SameRouted DEF AtPostgres
    <2>5. QED
      BY <2>2, <2>3, <2>4 DEF Base
  <1>6. QED
    BY <1>1, <1>2, <1>3, <1>4, <1>5 DEF Around, Aside

\* The steps of the service's thread.
LEMMA ServiceKeepsBase ==
  ASSUME Base, Service
  PROVE  Base'
  <1>a. /\ WorldTypes /\ SessionTypes /\ ServiceTypes /\ JobWaits /\ Routed
        /\ cut \in SUBSET Requests /\ calm \in BOOLEAN
    BY DEF Base, ServiceTypes
  <1>1. CASE RunBegins
    <2>1. /\ pc = "boot" /\ todo' = Candidates(config.store) /\ pc' = "connect"
          /\ UNCHANGED <<world, data, link, last, try, quoted, job, clients, cut, calm>>
      BY <1>1 DEF RunBegins
    <2>2. config.store \in Dbs \cup {NoDb}
      BY <1>a, ConfigsAssumption DEF WorldTypes, Config
    <2>3. todo' \in Seq(Dbs)
      BY <1>a, <2>1, <2>2, CandidatesAreDbs DEF WorldTypes
    <2>4. WorldTypes' /\ SessionTypes'
      BY <1>a, <2>1, <2>3, SameWorld DEF SessionTypes, Alive
    <2>5. job \notin Requests
      BY <1>a, <2>1, JobKinds DEF ServiceTypes
    <2>6. ServiceTypes' /\ JobWaits' /\ Routed'
      BY <1>a, <2>1, <2>5, JobGoesOn DEF world
    <2>7. QED
      BY <2>4, <2>6 DEF Base
  <1>2. CASE Listen
    <2>1. /\ pc' \in {"accept", "stopped"}
          /\ UNCHANGED <<world, data, session, job, clients, cut, calm>>
      BY <1>2 DEF Listen
    <2>2. WorldTypes' /\ SessionTypes'
      BY <1>a, <2>1, SameWorld DEF SessionTypes, session, Alive
    <2>3. ServiceTypes' /\ JobWaits' /\ Routed'
      BY <1>a, <2>1, JobGoesOn DEF world
    <2>4. QED
      BY <2>2, <2>3 DEF Base
  <1>3. CASE Route
    <2>1. /\ job \in Requests /\ stage[job] = "waiting" /\ job # Start /\ pc = "route"
          /\ UNCHANGED <<world, data, link, last, todo, try, job, cut, calm>>
          /\ quoted' \in BOOLEAN
      BY <1>a, <1>3, JobKinds DEF Route, ServiceTypes, JobWaits
    <2>2. WorldTypes'
      BY <1>a, <2>1, SameWorld
    <2>3. CASE Verdict(shape[job]) = {}
      <3>1. pc' = "exec" /\ UNCHANGED clients
        BY <1>3, <2>3 DEF Route
      <3>2. SessionTypes'
        BY <1>a, <2>1, <3>1 DEF SessionTypes, Alive
      <3>3. ServiceTypes' /\ JobWaits'
        BY <1>a, <2>1, <3>1 DEF ServiceTypes, JobWaits, clients
      <3>4. Routed'
        BY <2>1, <2>3, <3>1
        DEF Routed, Verdict, Refused, WriteAllowed, IsApi, IsWrite, clients, world
      <3>5. QED
        BY <2>2, <3>2, <3>3, <3>4 DEF Base
    <2>4. CASE Verdict(shape[job]) # {}
      <3>1. PICK status \in Verdict(shape[job]) : Answers(status, FALSE)
        BY <1>3, <2>4 DEF Route
      <3>2. status \in {200, 201, 204, 401, 404, 405}
        BY DEF Verdict
      <3>3. ServiceTypes' /\ JobWaits' /\ pc' \in {"accept", "dead"}
        <4>1. cut' \in SUBSET Requests /\ calm' \in BOOLEAN /\ job' = job
          BY <1>a, <2>1
        <4>2. QED
          BY <1>a, <2>1, <3>1, <3>2, <4>1, AnswersKeep
      <3>4. SessionTypes' /\ Routed'
        BY <1>a, <2>1, <3>3 DEF SessionTypes, Alive, Routed, AtPostgres
      <3>5. QED
        BY <2>2, <3>3, <3>4 DEF Base
    <2>5. QED
      BY <2>3, <2>4
  <1>4. CASE Connect
    <2>1. /\ todo # <<>> /\ pc = "connect"
          /\ UNCHANGED <<world, data, try, quoted, clients, cut, calm>>
      BY <1>4 DEF Connect
    <2>2. Head(todo) \in Dbs /\ Tail(todo) \in Seq(Dbs)
      BY <1>a, <2>1, HeadTailProperties DEF SessionTypes
    <2>3. WorldTypes'
      BY <1>a, <2>1, SameWorld
    <2>4. CASE up[Head(todo)]
      <3>1. /\ link' = [db |-> Head(todo), state |-> "ok"] /\ last' = Head(todo)
            /\ todo' = <<>>
            /\ IF job = Start THEN job' = Schema /\ pc' = "exec"
               ELSE pc' = "send" /\ UNCHANGED job
        BY <1>4, <2>4 DEF Connect
      <3>2. SessionTypes'
        BY <1>a, <2>1, <2>2, <3>1, EmptySeq DEF SessionTypes, Alive
      <3>3. ServiceTypes' /\ JobWaits' /\ Routed'
        <4>1. CASE job = Start
          BY <1>a, <2>1, <3>1, <4>1, JobKinds
          DEF ServiceTypes, JobWaits, Routed, AtPostgres, clients
        <4>2. CASE job # Start
          BY <1>a, <2>1, <3>1, <4>2, JobGoesOn DEF world
        <4>3. QED
          BY <4>1, <4>2
      <3>4. QED
        BY <2>3, <3>2, <3>3 DEF Base
    <2>5. CASE ~up[Head(todo)]
      <3>1. link' = NoLink /\ todo' = Tail(todo) /\ UNCHANGED <<last, pc, job>>
        BY <1>4, <2>5 DEF Connect
      <3>2. SessionTypes'
        BY <1>a, <2>1, <2>2, <3>1 DEF SessionTypes, Alive, NoLink
      <3>3. ServiceTypes' /\ JobWaits' /\ Routed'
        BY <1>a, <2>1, <3>1, SameJob DEF world
      <3>4. QED
        BY <2>3, <3>2, <3>3 DEF Base
    <2>6. QED
      BY <2>4, <2>5
  <1>5. CASE NoConnection
    <2>1. pc = "connect" /\ UNCHANGED <<world, data, session, job, cut, calm>>
      BY <1>5 DEF NoConnection
    <2>2. WorldTypes'
      BY <1>a, <2>1, SameWorld
    <2>3. ServiceTypes' /\ JobWaits' /\ Routed' /\ pc' \in {"listen", "accept", "dead"}
      <3>1. CASE job = Start
        <4>1. pc' = "listen" /\ UNCHANGED clients
          BY <1>5, <3>1 DEF NoConnection
        <4>2. QED
          BY <1>a, <2>1, <4>1, JobGoesOn DEF world
      <3>2. CASE job # Start
        <4>1. Finish(FALSE)
          BY <1>5, <3>2 DEF NoConnection
        <4>2. ServiceTypes' /\ JobWaits' /\ pc' \in {"accept", "listen", "dead"}
          BY <1>a, <2>1, <3>2, <4>1, FinishKeeps
        <4>3. QED
          BY <4>2 DEF Routed, AtPostgres
      <3>3. QED
        BY <3>1, <3>2
    <2>4. SessionTypes'
      BY <1>a, <2>1, <2>3 DEF SessionTypes, session, Alive
    <2>5. QED
      BY <2>2, <2>3, <2>4 DEF Base
  <1>6. CASE Exec
    <2>1. /\ pc = "exec" /\ try' = 1
          /\ UNCHANGED <<world, data, link, last, quoted, job, clients, cut, calm>>
          /\ IF Alive THEN pc' = "send" /\ UNCHANGED todo
             ELSE pc' = "connect" /\ todo' = Candidates(last)
      BY <1>6 DEF Exec
    <2>2. WorldTypes'
      BY <1>a, <2>1, SameWorld
    <2>3. Candidates(last) \in Seq(Dbs)
      BY <1>a, CandidatesAreDbs DEF WorldTypes, SessionTypes
    <2>4. SessionTypes'
      BY <1>a, <2>1, <2>3 DEF SessionTypes, Alive
    <2>5. job # Start
      BY <1>a, <2>1 DEF ServiceTypes
    <2>6. ServiceTypes' /\ JobWaits' /\ Routed'
      BY <1>a, <2>1, <2>5, JobGoesOn DEF world
    <2>7. QED
      BY <2>2, <2>4, <2>6 DEF Base
  <1>7. CASE Send
    <2>1. /\ pc = "send" /\ link.db \in Dbs /\ job # Start /\ Executed(link.db)
          /\ UNCHANGED <<world, session, job, cut, calm>>
          /\ Finish(Succeeds(link.db))
      BY <1>a, <1>7 DEF Send, SessionTypes, ServiceTypes, Alive
    <2>2. WorldTypes'
      BY <1>a, <2>1, ExecutedData DEF WorldTypes, world
    <2>3. Succeeds(link.db) \in BOOLEAN
      BY <1>a, <2>1 DEF Succeeds, WorldTypes, DataTypes
    <2>4. ServiceTypes' /\ JobWaits' /\ pc' \in {"accept", "listen", "dead"}
      BY <1>a, <2>1, <2>3, FinishKeeps
    <2>5. SessionTypes' /\ Routed'
      BY <1>a, <2>1, <2>4 DEF SessionTypes, session, Alive, Routed, AtPostgres
    <2>6. QED
      BY <2>2, <2>4, <2>5 DEF Base
  <1>8. CASE SendFindsDropped
    <2>1. /\ pc = "send" /\ link' = [link EXCEPT !.state = "broken"] /\ Again
          /\ UNCHANGED <<world, data, last, quoted, job, cut, calm>>
      BY <1>8 DEF SendFindsDropped
    <2>2. WorldTypes'
      BY <1>a, <2>1, SameWorld
    <2>3. /\ ServiceTypes' /\ JobWaits' /\ Routed'
          /\ pc' # "send" /\ try' \in {1, 2} /\ todo' \in Seq(Dbs)
      BY <1>a, <2>1, AgainKeeps DEF world
    <2>4. SessionTypes'
      BY <1>a, <2>1, <2>3 DEF SessionTypes, Alive
    <2>5. QED
      BY <2>2, <2>3, <2>4 DEF Base
  <1>9. CASE SendBreaks
    <2>1. /\ pc = "send" /\ link' = [link EXCEPT !.state = "broken"] /\ Again
          /\ Executed(link.db) \/ UNCHANGED data
          /\ link.db \in Dbs /\ job # Start /\ Event
          /\ cut' = cut \cup ({job} \cap Requests) /\ calm' = FALSE
          /\ UNCHANGED <<config, up, mute, crowd, last, quoted, job>>
      BY <1>a, <1>9 DEF SendBreaks, SessionTypes, ServiceTypes, Alive
    <2>2. cut' \in SUBSET Requests
      BY <1>a, <2>1
    <2>3. /\ ServiceTypes' /\ JobWaits' /\ Routed'
          /\ pc' # "send" /\ try' \in {1, 2} /\ todo' \in Seq(Dbs)
      BY <1>a, <2>1, <2>2, AgainKeeps
    <2>4. SessionTypes'
      BY <1>a, <2>1, <2>3 DEF SessionTypes, Alive
    <2>5. DataTypes'
      <3>1. CASE UNCHANGED data
        BY <1>a, <3>1, SameData DEF WorldTypes
      <3>2. CASE Executed(link.db)
        BY <1>a, <2>1, <3>2, ExecutedData DEF WorldTypes
      <3>3. QED
        BY <2>1, <3>1, <3>2
    <2>6. WorldTypes'
      BY <1>a, <2>1, <2>5, MaxEventsAssumption DEF WorldTypes, Event
    <2>7. QED
      BY <2>3, <2>4, <2>6 DEF Base
  <1>10. ASSUME NEW r \in Requests, Accept(r) PROVE Base'
    <2>1. /\ pc = "accept" /\ job' = r /\ stage[r] = "waiting"
          /\ UNCHANGED <<world, data, session, shape, reply, gone, cut>>
          /\ IF shape[r].sent = "nothing"
             THEN stage' = [stage EXCEPT ![r] = "dropped"] /\ UNCHANGED pc
             ELSE pc' = "route" /\ UNCHANGED stage
      BY <1>10 DEF Accept, IsNext, Waiting
    <2>2. calm' \in BOOLEAN
      <3>1. calm' = (last # NoDb /\ up[last])
        BY <1>10 DEF Accept
      <3>2. last # NoDb => up[last] \in BOOLEAN
        BY <1>a DEF WorldTypes, SessionTypes
      <3>3. QED
        BY <3>1, <3>2
    <2>3. WorldTypes' /\ SessionTypes'
      BY <1>a, <2>1, SameWorld DEF SessionTypes, session, Alive
    <2>4. ServiceTypes' /\ JobWaits' /\ Routed'
      BY <1>a, <2>1, <2>2 DEF ServiceTypes, JobWaits, Routed, AtPostgres
    <2>5. QED
      BY <2>3, <2>4 DEF Base
  <1>11. QED
    BY <1>1, <1>2, <1>3, <1>4, <1>5, <1>6, <1>7, <1>8, <1>9, <1>10 DEF Service

LEMMA NextBase == Base /\ [Next]_vars => Base'
  <1> SUFFICES ASSUME Base, [Next]_vars PROVE Base'
    OBVIOUS
  <1>1. CASE UNCHANGED vars
    <2>1. UNCHANGED <<world, data, session, pc, job, clients, cut, calm>>
      BY <1>1 DEF vars
    <2>2. cut' \in SUBSET Requests /\ calm' \in BOOLEAN
      BY <2>1 DEF Base, ServiceTypes
    <2>3. ServiceTypes' /\ JobWaits' /\ Routed'
      BY <2>1, <2>2, SameJob DEF Base, world
    <2>4. QED
      BY <2>1, <2>3, SameWorld DEF Base, SessionTypes, session, Alive
  <1>2. QED
    BY <1>1, SurroundingsKeepBase, ServiceKeepsBase DEF Next, Around

(* The service's state stays well typed, and a thread that sends a         *)
(* statement has a session, to the database of the last good string.       *)
(* (buraaq_pg_connect, buraaq_pg_exec, buraaq_svc_run)                     *)
THEOREM TypeCorrect == Spec => []TypeOK
  <1>1. ASSUME Base PROVE TypeOK
    <2>1. /\ WorldTypes /\ SessionTypes /\ ServiceTypes /\ DataTypes
      BY <1>1 DEF Base, WorldTypes
    <2>2. ASSUME NEW d \in Dbs, NEW w \in rows[d]
          PROVE  /\ w.id \in 1 .. serial[d] - 1 /\ w.by \in Requests
                 /\ w.body \in {"nothing", "head", "all"}
      BY <2>1 DEF DataTypes, RowSet
    <2>3. serial \in [Dbs -> Nat \ {0}] /\ table \in [Dbs -> BOOLEAN]
      BY <2>1 DEF DataTypes
    <2>4. QED
      BY <2>1, <2>2, <2>3
      DEF TypeOK, WorldTypes, SessionTypes, ServiceTypes, Replies
  <1>2. Base => TypeOK
    BY <1>1
  <1>3. QED
    BY InitBase, NextBase, <1>2, PTL DEF Spec

-----------------------------------------------------------------------------
(* What requests write *)

IsInsert(r) == shape[r].method = "POST" /\ shape[r].path = "items"
IsUpdate(r) == shape[r].method = "PUT" /\ shape[r].path = "item"
LetThrough(r) == Verdict(shape[r]) = {}

\* What a request has written and what it has been told.
Marks(r) ==
  /\ stage[r] = "new" => Copies(r) = {}
  /\ Copies(r) # {} => (IsInsert(r) \/ IsUpdate(r)) /\ LetThrough(r)
  /\ (stage[r] = "waiting" /\ Copies(r) # {})
       => job = r /\ pc \in {"connect", "send"} /\ try = 2 /\ r \in cut
  /\ shape[r].method = "POST"
       => /\ IsFiniteSet(Copies(r))
          /\ Cardinality(Copies(r)) <= IF r \in cut THEN 2 ELSE 1
          /\ stage[r] = "waiting" => Cardinality(Copies(r)) <= 1
  /\ reply[r].ok => LetThrough(r)
  /\ (reply[r].status = 201 /\ reply[r].ok)
       => Copies(r) # {} \/ \E q \in Requests : Rewrites(q)

Ink == \A r \in Requests : Marks(r)

LEMMA InCopies ==
  ASSUME NEW r \in Requests
  PROVE  /\ \A d \in Dbs : \A w : <<d, w>> \in Copies(r) <=> w \in rows[d] /\ w.by = r
         /\ \A d \in Dbs : \A w : <<d, w>> \in Copies(r)' <=> w \in rows'[d] /\ w.by = r
         /\ \A c \in Copies(r) : c = <<c[1], c[2]>> /\ c[1] \in Dbs
         /\ \A c \in Copies(r)' : c = <<c[1], c[2]>> /\ c[1] \in Dbs
  BY DEF Copies

LEMMA SameCopies == ASSUME UNCHANGED data, NEW r PROVE Copies(r)' = Copies(r)
  BY DEF Copies, data

LEMMA SameVerdict ==
  ASSUME UNCHANGED config, NEW r \in Requests, shape'[r] = shape[r]
  PROVE  LetThrough(r)' <=> LetThrough(r)
  BY DEF LetThrough, Verdict, Refused, WriteAllowed, IsApi, IsWrite

\* A statement touches the rows of another request only to rewrite them.
LEMMA OthersCopies ==
  ASSUME DataTypes, ServiceTypes, job # Start, NEW d \in Dbs, Executed(d),
         NEW r \in Requests, r # job
  PROVE  /\ Copies(r)' \subseteq Copies(r)
         /\ Copies(r)' = Copies(r) \/ (job \in Requests /\ Rewrites(job))
  <1> USE InCopies
  <1>1. CASE Creates(d)
    BY <1>1 DEF Creates, Copies
  <1>2. CASE Inserts(d)
    <2>1. /\ rows' = [rows EXCEPT ![d] = @ \cup {Row(serial[d], job)}]
          /\ Row(serial[d], job).by = job
      BY <1>2 DEF Inserts, Row
    <2>2. \A e \in Dbs : \A w : w \in rows'[e] /\ w.by = r <=> w \in rows[e] /\ w.by = r
      BY <2>1 DEF DataTypes
    <2>3. \A e \in Dbs : \A w : <<e, w>> \in Copies(r)' <=> <<e, w>> \in Copies(r)
      BY <2>2
    <2>4. Copies(r)' \subseteq Copies(r) /\ Copies(r) \subseteq Copies(r)'
      BY <2>3
    <2>5. QED
      BY <2>4
  <1>3. CASE Updates(d) \/ Deletes(d)
    <2>1. \A e \in Dbs : \A w : w \in rows'[e] /\ w.by = r => w \in rows[e]
      BY <1>3 DEF Updates, Deletes, Row, DataTypes
    <2>2. \A e \in Dbs : \A w : <<e, w>> \in Copies(r)' => <<e, w>> \in Copies(r)
      BY <2>1
    <2>3. Copies(r)' \subseteq Copies(r)
      BY <2>2
    <2>4. job \in Requests /\ Rewrites(job)
      BY <1>3 DEF Updates, Deletes, Statement, Rewrites, ServiceTypes, NoShape
    <2>5. QED
      BY <2>3, <2>4
  <1>4. CASE Reads(d)
    BY <1>4, SameCopies DEF Reads
  <1>5. QED
    BY <1>1, <1>2, <1>3, <1>4 DEF Executed

\* An insert adds one row of its own; but for an update, no other statement
\* adds any.
LEMMA OwnCopies ==
  ASSUME DataTypes, NEW d \in Dbs, Executed(d), NEW r \in Requests, r = job
  PROVE  \/ /\ Copies(r)' \subseteq Copies(r)
            /\ ~(IsInsert(r) /\ table[d])
         \/ /\ IsInsert(r) /\ table[d]
            /\ Copies(r)' = Copies(r) \cup {<<d, Row(serial[d], r)>>}
         \/ IsUpdate(r)
  <1> USE InCopies
  <1>0. job # Schema
    BY JobKinds
  <1>1. CASE Creates(d)
    BY <1>0, <1>1 DEF Creates
  <1>2. CASE Inserts(d)
    <2>1. /\ rows' = [rows EXCEPT ![d] = @ \cup {Row(serial[d], r)}]
          /\ Row(serial[d], r).by = r
          /\ IsInsert(r) /\ table[d]
      BY <1>2 DEF Inserts, Row, Statement, IsInsert
    <2>2. \A e \in Dbs : \A w : w \in rows'[e]
                               <=> (w \in rows[e] \/ (e = d /\ w = Row(serial[d], r)))
      BY <2>1 DEF DataTypes
    <2>3. \A e \in Dbs : \A w : <<e, w>> \in Copies(r)'
            <=> (<<e, w>> \in Copies(r) \/ <<e, w>> = <<d, Row(serial[d], r)>>)
      BY <2>1, <2>2
    <2>4. /\ Copies(r)' \subseteq Copies(r) \cup {<<d, Row(serial[d], r)>>}
          /\ Copies(r) \cup {<<d, Row(serial[d], r)>>} \subseteq Copies(r)'
      BY <2>3
    <2>5. QED
      BY <2>1, <2>4
  <1>3. CASE Updates(d)
    BY <1>3 DEF Updates, Statement, IsUpdate
  <1>4. CASE Deletes(d)
    <2>1. \A e \in Dbs : \A w : w \in rows'[e] => w \in rows[e]
      BY <1>4 DEF Deletes, DataTypes
    <2>2. \A e \in Dbs : \A w : <<e, w>> \in Copies(r)' => <<e, w>> \in Copies(r)
      BY <2>1
    <2>3. Copies(r)' \subseteq Copies(r)
      BY <2>2
    <2>4. ~IsInsert(r)
      BY <1>4 DEF Deletes, Statement, IsInsert
    <2>5. QED
      BY <2>3, <2>4
  <1>5. CASE Reads(d)
    BY <1>0, <1>5, SameCopies DEF Reads, Statement, IsInsert
  <1>6. QED
    BY <1>1, <1>2, <1>3, <1>4, <1>5 DEF Executed

\* What the job's own statement leaves of it in the databases.
LEMMA OwnStatement ==
  ASSUME Base, NEW d \in Dbs, Executed(d), NEW r \in Requests, r = job, Marks(r)
  PROVE  /\ Copies(r)' # {} => IsInsert(r) \/ IsUpdate(r)
         /\ shape[r].method = "POST"
              => /\ IsFiniteSet(Copies(r)')
                 /\ Cardinality(Copies(r)') <= Cardinality(Copies(r)) + 1
         /\ (IsInsert(r) /\ Succeeds(d)) => Copies(r)' # {}
  <1>1. \/ /\ Copies(r)' \subseteq Copies(r)
           /\ ~(IsInsert(r) /\ table[d])
        \/ /\ IsInsert(r) /\ table[d]
           /\ Copies(r)' = Copies(r) \cup {<<d, Row(serial[d], r)>>}
        \/ IsUpdate(r)
    BY OwnCopies DEF Base, WorldTypes
  <1>2. shape[r].method = "POST" => IsFiniteSet(Copies(r))
    BY DEF Marks
  <1>3. (IsInsert(r) /\ Succeeds(d)) => table[d]
    BY JobKinds DEF IsInsert, Succeeds
  <1>4. CASE Copies(r)' \subseteq Copies(r) /\ ~(IsInsert(r) /\ table[d])
    <2>1. shape[r].method = "POST"
            => /\ IsFiniteSet(Copies(r)')
               /\ Cardinality(Copies(r)') <= Cardinality(Copies(r))
               /\ Cardinality(Copies(r)) \in Nat /\ Cardinality(Copies(r)') \in Nat
      BY <1>2, <1>4, FS_Subset, FS_CardinalityType
    <2>2. shape[r].method = "POST" => Cardinality(Copies(r)') <= Cardinality(Copies(r)) + 1
      BY <2>1
    <2>3. Copies(r)' # {} => IsInsert(r) \/ IsUpdate(r)
      BY <1>4 DEF Marks
    <2>4. QED
      BY <1>3, <1>4, <2>1, <2>2, <2>3
  <1>5. CASE IsInsert(r) /\ Copies(r)' = Copies(r) \cup {<<d, Row(serial[d], r)>>}
    <2>1. IsFiniteSet(Copies(r)) /\ shape[r].method = "POST"
      BY <1>2, <1>5 DEF IsInsert
    <2>2. /\ IsFiniteSet(Copies(r)')
          /\ Cardinality(Copies(r)') <= Cardinality(Copies(r)) + 1
      <3>1. /\ IsFiniteSet(Copies(r) \cup {<<d, Row(serial[d], r)>>})
            /\ Cardinality(Copies(r) \cup {<<d, Row(serial[d], r)>>})
                 \in {Cardinality(Copies(r)), Cardinality(Copies(r)) + 1}
            /\ Cardinality(Copies(r)) \in Nat
        BY <2>1, FS_AddElement, FS_CardinalityType
      <3>2. QED
        BY <1>5, <3>1
    <2>3. QED
      BY <1>5, <2>1, <2>2
  <1>6. CASE IsUpdate(r)
    BY <1>6 DEF IsInsert, IsUpdate
  <1>7. QED
    BY <1>1, <1>4, <1>5, <1>6

\* A request that the step is not about.
LEMMA QuietMarks ==
  ASSUME NEW r \in Requests, Marks(r), UNCHANGED config,
         Quiet(r), cut \subseteq cut',
         (stage[r] = "waiting" /\ Copies(r) # {})
           => job' = job /\ pc' \in {"connect", "send"} /\ try' = try,
         Copies(r)' \subseteq Copies(r),
         Copies(r)' = Copies(r) \/ \E q \in Requests : Rewrites(q),
         \A q \in Requests : Rewrites(q) => Rewrites(q)'
  PROVE  Marks(r)'
  <1>a. /\ shape'[r] = shape[r] /\ reply'[r] = reply[r]
        /\ stage'[r] = stage[r] \/ (stage[r] = "waiting" /\ stage'[r] = "dropped")
    BY DEF Quiet
  <1>1. LetThrough(r)' <=> LetThrough(r)
    BY <1>a, SameVerdict
  <1>2. shape[r].method = "POST"
          => /\ IsFiniteSet(Copies(r)')
             /\ Cardinality(Copies(r)') <= Cardinality(Copies(r))
             /\ Cardinality(Copies(r)) \in Nat /\ Cardinality(Copies(r)') \in Nat
    BY FS_Subset, FS_CardinalityType DEF Marks
  <1>3. shape[r].method = "POST"
          => /\ Cardinality(Copies(r)') <= IF r \in cut' THEN 2 ELSE 1
             /\ stage[r] = "waiting" => Cardinality(Copies(r)') <= 1
    BY <1>2 DEF Marks
  <1>4. (reply[r].status = 201 /\ reply[r].ok)
          => Copies(r)' # {} \/ \E q \in Requests : Rewrites(q)'
    BY DEF Marks
  <1>5. QED
    BY <1>a, <1>1, <1>2, <1>3, <1>4 DEF Marks, IsInsert, IsUpdate

\* Shapes stay, so what rewrites rows goes on doing so.
LEMMA RewritesStay ==
  ASSUME Base, [Next]_vars
  PROVE  \A q \in Requests : Rewrites(q) => Rewrites(q)'
  <1>1. CASE UNCHANGED shape
    BY <1>1 DEF Rewrites
  <1>2. ASSUME NEW r \in Requests, Arrive(r)
        PROVE  \A q \in Requests : Rewrites(q) => Rewrites(q)'
    <2>1. PICK s \in Shapes[r] : shape' = [shape EXCEPT ![r] = s]
      BY <1>2 DEF Arrive
    <2>2. shape[r] = NoShape
      BY <1>2 DEF Arrive, Base, JobWaits
    <2>3. \A q \in Requests : q # r => shape'[q] = shape[q]
      BY <2>1 DEF Base, ServiceTypes
    <2>4. QED
      BY <2>2, <2>3 DEF Rewrites
  <1>3. UNCHANGED shape \/ \E r \in Requests : Arrive(r)
    <2>1. Again \/ (\E ok \in BOOLEAN : Finish(ok)) => UNCHANGED shape
      BY DEF Again, Finish, Answers, clients
    <2>2. Send \/ NoConnection => UNCHANGED shape
      BY DEF Send, NoConnection, Finish, Answers, clients
    <2>3. QED
      BY <2>1, <2>2
      DEF Next, Service, RunBegins, Listen, Route, Answers, Connect, Exec,
          SendFindsDropped, SendBreaks, Accept, GoesDown, ComesUp, FallsMute, Speaks,
          DropsIdle, Crowds, Scatters, Leaves, clients, vars
  <1>4. QED
    BY <1>1, <1>2, <1>3

\* The end of buraaq_pg_exec, with what it did to the databases.
LEMMA FinishMarks ==
  ASSUME Base, Ink, pc \in {"connect", "send"}, job # Start, NEW ok \in BOOLEAN,
         Finish(ok), UNCHANGED <<config, job>>,
         cut \subseteq cut', cut' \in SUBSET Requests, calm' \in BOOLEAN,
         \A q \in Requests : Rewrites(q) => Rewrites(q)',
         \/ UNCHANGED data /\ ~ok
         \/ \E d \in Dbs : Executed(d) /\ (ok => Succeeds(d)),
         NEW r \in Requests
  PROVE  Marks(r)'
  <1>a. Marks(r) /\ (r = job => stage[r] = "waiting" /\ LetThrough(r))
    BY DEF Ink, Base, JobWaits, Routed, AtPostgres, LetThrough
  <1>c. /\ shape' = shape
        /\ \A q \in Requests : q # job => Quiet(q)
        /\ job \in Requests =>
             \/ /\ stage'[job] = "served"
                /\ \E status \in {200, 201} :
                     /\ status = 201 =>
                          shape[job].method = "POST" /\ shape[job].path = "items"
                     /\ reply'[job] = [status |-> status, ok |-> ok]
             \/ stage'[job] = "dropped" /\ reply'[job] = NoReply
    BY FinishKeeps DEF Base
  <1>b. LetThrough(r)' <=> LetThrough(r)
    BY <1>c, SameVerdict
  <1>1. CASE r # job
    <2>1. Quiet(r)
      BY <1>1, <1>c
    <2>2. /\ Copies(r)' \subseteq Copies(r)
          /\ Copies(r)' = Copies(r) \/ \E q \in Requests : Rewrites(q)
      <3>1. CASE UNCHANGED data
        BY <3>1, SameCopies
      <3>2. ASSUME NEW d \in Dbs, Executed(d)
            PROVE  /\ Copies(r)' \subseteq Copies(r)
                   /\ Copies(r)' = Copies(r) \/ \E q \in Requests : Rewrites(q)
        BY <1>1, <3>2, OthersCopies DEF Base, WorldTypes
      <3>3. QED
        BY <3>1, <3>2
    <2>3. ~(stage[r] = "waiting" /\ Copies(r) # {})
      BY <1>a, <1>1 DEF Marks
    <2>4. QED
      BY <1>a, <2>1, <2>2, <2>3, QuietMarks
  <1>2. CASE r = job
    <2>1. /\ reply'[r].ok => ok
          /\ reply'[r].status = 201 => IsInsert(r)
          /\ stage'[r] \in {"served", "dropped"} /\ shape'[r] = shape[r]
          /\ reply'[r].ok \in BOOLEAN
      <3>1. CASE stage'[job] = "dropped" /\ reply'[job] = NoReply
        BY <1>2, <1>c, <3>1 DEF NoReply
      <3>2. ASSUME NEW status \in {200, 201}, stage'[job] = "served",
                   status = 201 =>
                     shape[job].method = "POST" /\ shape[job].path = "items",
                   reply'[job] = [status |-> status, ok |-> ok]
            PROVE  /\ reply'[r].ok = ok
                   /\ reply'[r].status = 201 => IsInsert(r)
                   /\ stage'[r] \in {"served", "dropped"} /\ shape'[r] = shape[r]
        BY <1>2, <1>c, <3>2 DEF IsInsert
      <3>3. QED
        BY <1>2, <1>c, <3>1, <3>2
    <2>2. CASE UNCHANGED data /\ ~ok
      <3>1. Copies(r)' = Copies(r)
        BY <2>2, SameCopies
      <3>2. QED
        <4>1. (shape'[r].method = "POST") => Cardinality(Copies(r)) \in Nat
          BY <1>a, <2>1, FS_CardinalityType DEF Marks
        <4>2. shape'[r].method = "POST"
                => Cardinality(Copies(r)) <= IF r \in cut' THEN 2 ELSE 1
          BY <1>a, <2>1, <4>1 DEF Marks
        <4>3. QED
          BY <1>a, <1>b, <2>1, <2>2, <3>1, <4>2 DEF Marks, IsInsert, IsUpdate
    <2>3. ASSUME NEW d \in Dbs, Executed(d), ok => Succeeds(d)
          PROVE  Marks(r)'
      <3>1. /\ Copies(r)' # {} => IsInsert(r) \/ IsUpdate(r)
            /\ shape[r].method = "POST"
                 => /\ IsFiniteSet(Copies(r)')
                    /\ Cardinality(Copies(r)') <= Cardinality(Copies(r)) + 1
            /\ (IsInsert(r) /\ Succeeds(d)) => Copies(r)' # {}
        BY <1>a, <1>2, <2>3, OwnStatement
      <3>2. shape[r].method = "POST"
              => Cardinality(Copies(r)') <= IF r \in cut' THEN 2 ELSE 1
        <4>1. shape[r].method = "POST"
                => /\ Cardinality(Copies(r)) \in Nat
                   /\ Cardinality(Copies(r)') \in Nat
                   /\ Copies(r) = {} => Cardinality(Copies(r)) = 0
          BY <1>a, <3>1, FS_CardinalityType, FS_EmptySet DEF Marks
        <4>2. Copies(r) # {} => r \in cut'
          BY <1>a, <1>2 DEF Marks
        <4>3. shape[r].method = "POST" => Cardinality(Copies(r)) <= 1
          BY <1>a, <1>2 DEF Marks
        <4>4. QED
          BY <3>1, <4>1, <4>2, <4>3
      <3>3. (reply'[r].status = 201 /\ reply'[r].ok) => Copies(r)' # {}
        BY <2>1, <2>3, <3>1
      <3>4. QED
        BY <1>a, <1>b, <1>2, <2>1, <3>1, <3>2, <3>3 DEF Marks, IsInsert, IsUpdate
    <2>4. QED
      BY <2>2, <2>3
  <1>3. QED
    BY <1>1, <1>2

\* After a broken session: the second try, or the end.
LEMMA AgainMarks ==
  ASSUME Base, Ink, pc = "send", Again, UNCHANGED <<config, job>>,
         cut \subseteq cut', cut' \in SUBSET Requests, calm' \in BOOLEAN,
         \A q \in Requests : Rewrites(q) => Rewrites(q)',
         \/ UNCHANGED data
         \/ job \in Requests => job \in cut',
         UNCHANGED data \/ \E d \in Dbs : Executed(d),
         NEW r \in Requests
  PROVE  Marks(r)'
  <1>a. Marks(r) /\ job # Start /\ (r = job => stage[r] = "waiting" /\ LetThrough(r))
    BY DEF Ink, Base, JobWaits, Routed, AtPostgres, LetThrough, ServiceTypes
  <1>1. CASE try # 1
    <2>1. Finish(FALSE)
      BY <1>1 DEF Again
    <2>2. QED
      BY <1>a, <2>1, FinishMarks
  <1>2. CASE try = 1
    <2>1. try' = 2 /\ pc' = "connect" /\ shape' = shape /\ stage' = stage /\ reply' = reply
      BY <1>2 DEF Again, clients
    <2>2. ~(stage[r] = "waiting" /\ Copies(r) # {})
      BY <1>a, <1>2 DEF Marks
    <2>3. CASE UNCHANGED data
      BY <1>a, <2>1, <2>2, <2>3, SameCopies, QuietMarks DEF Quiet
    <2>4. ASSUME NEW d \in Dbs, Executed(d), r # job PROVE Marks(r)'
      BY <1>a, <2>1, <2>2, <2>4, OthersCopies, QuietMarks DEF Base, WorldTypes, Quiet
    <2>5. ASSUME NEW d \in Dbs, Executed(d), r = job, r \in cut' PROVE Marks(r)'
      <3>1. /\ Copies(r)' # {} => IsInsert(r) \/ IsUpdate(r)
            /\ shape[r].method = "POST"
                 => /\ IsFiniteSet(Copies(r)')
                    /\ Cardinality(Copies(r)') <= Cardinality(Copies(r)) + 1
        BY <1>a, <2>5, OwnStatement
      <3>2. Copies(r) = {}
        BY <1>a, <2>2, <2>5
      <3>3. shape[r].method = "POST" => Cardinality(Copies(r)') <= 1
        BY <3>1, <3>2, FS_EmptySet
      <3>4. shape[r].method = "POST" => Cardinality(Copies(r)') <= 2
        BY <3>1, <3>3, FS_CardinalityType
      <3>5. LetThrough(r)'
        BY <1>a, <2>1, <2>5, SameVerdict
      <3>6. ~(reply'[r].status = 201 /\ reply'[r].ok)
        BY <1>a, <2>1, <2>5 DEF Base, JobWaits, NoReply
      <3>7. Copies(r)' # {} => (IsInsert(r) \/ IsUpdate(r))'
        BY <2>1, <3>1 DEF IsInsert, IsUpdate
      <3>8. shape'[r].method = "POST" => IsFiniteSet(Copies(r)')
        BY <2>1, <3>1
      <3>9. stage'[r] = "waiting" /\ job' = r
        BY <1>a, <2>1, <2>5
      <3>10. QED
        BY <2>1, <2>5, <3>3, <3>4, <3>5, <3>6, <3>7, <3>8, <3>9 DEF Marks
    <2>6. QED
      BY <2>3, <2>4, <2>5
  <1>3. QED
    BY <1>1, <1>2 DEF Base, SessionTypes

LEMMA InitInk == Init => Ink
  <1> SUFFICES ASSUME Init, NEW r \in Requests PROVE Marks(r)
    BY DEF Ink
  <1>1. Copies(r) = {} /\ shape[r] = NoShape /\ reply[r] = NoReply /\ stage[r] = "new"
    BY DEF Init, Copies
  <1>2. QED
    BY <1>1, FS_EmptySet DEF Marks, NoShape, NoReply

\* What the databases and the clients do leaves the marks alone.
LEMMA SurroundingsKeepInk ==
  ASSUME Base, Ink, [Next]_vars,
         Around \/ UNCHANGED vars
  PROVE  Ink'
  <1> SUFFICES ASSUME NEW r \in Requests PROVE Marks(r)'
    BY DEF Ink
  <1>1. Marks(r)
    BY DEF Ink
  <1>2. \A q \in Requests : Rewrites(q) => Rewrites(q)'
    BY RewritesStay
  <1>a. Aside => UNCHANGED <<config, data, session, pc, job, shape, stage, reply, cut>>
    BY AsideSteps DEF Base
  <1>3. UNCHANGED <<config, data, job, pc, try, cut, reply>>
    BY <1>a
    DEF Around, Aside, GoesDown, ComesUp, DropsIdle, Arrive, vars, world, session, clients
  <1>4. Copies(r)' = Copies(r)
    BY <1>3, SameCopies
  <1>5. CASE shape'[r] = shape[r] /\ stage'[r] = stage[r]
    <2>1. Copies(r)' \subseteq Copies(r) /\ cut \subseteq cut' /\ reply'[r] = reply[r]
      BY <1>3, <1>4
    <2>2. (stage[r] = "waiting" /\ Copies(r) # {})
            => job' = job /\ pc' \in {"connect", "send"} /\ try' = try
      BY <1>1, <1>3 DEF Marks
    <2>3. QED
      BY <1>1, <1>2, <1>3, <1>4, <1>5, <2>1, <2>2, QuietMarks DEF Quiet
  <1>6. CASE Arrive(r)
    <2>1. stage[r] = "new" /\ Copies(r) = {} /\ reply[r] = NoReply
      BY <1>1, <1>6 DEF Arrive, Marks, Base, JobWaits
    <2>2. Copies(r)' = {} /\ reply'[r] = NoReply
      BY <1>3, <1>4, <2>1
    <2>3. Cardinality(Copies(r)') = 0 /\ IsFiniteSet(Copies(r)')
      BY <2>2, FS_EmptySet
    <2>4. QED
      BY <2>2, <2>3 DEF Marks, NoReply
  <1>7. (shape'[r] = shape[r] /\ stage'[r] = stage[r]) \/ Arrive(r)
    <2>1. ASSUME NEW q \in Requests, q # r, Arrive(q)
          PROVE  shape'[r] = shape[r] /\ stage'[r] = stage[r]
      BY <2>1 DEF Arrive, Base, ServiceTypes
    <2>2. QED
      BY <1>a, <2>1 DEF Around, Aside, GoesDown, ComesUp, DropsIdle, clients, vars
  <1>8. QED
    BY <1>5, <1>6, <1>7

\* The service's thread writes rows and answers.
LEMMA ServiceKeepsInk ==
  ASSUME Base, Ink, Service
  PROVE  Ink'
  <1> SUFFICES ASSUME NEW r \in Requests PROVE Marks(r)'
    BY DEF Ink
  <1>a. /\ Marks(r) /\ SessionTypes /\ ServiceTypes /\ JobWaits
        /\ job \in {Start, Schema} \cup Requests
        /\ cut \in SUBSET Requests /\ calm \in BOOLEAN
    BY DEF Ink, Base, ServiceTypes
  <1>b. \A q \in Requests : Rewrites(q) => Rewrites(q)'
    BY RewritesStay DEF Next
  <1>q. ASSUME UNCHANGED <<config, data, cut, clients>>,
               pc \notin {"connect", "send"}
                 \/ (job' = job /\ pc' \in {"connect", "send"} /\ try' = try)
                 \/ job \notin Requests
        PROVE  Marks(r)'
    <2>1. Copies(r)' = Copies(r)
      BY <1>q, SameCopies
    <2>2. shape'[r] = shape[r] /\ stage'[r] = stage[r] /\ reply'[r] = reply[r]
      BY <1>q DEF clients
    <2>3. (stage[r] = "waiting" /\ Copies(r) # {})
            => job' = job /\ pc' \in {"connect", "send"} /\ try' = try
      BY <1>a, <1>q DEF Marks
    <2>4. Copies(r)' \subseteq Copies(r) /\ cut \subseteq cut'
      BY <1>q, <2>1
    <2>5. QED
      BY <1>a, <1>b, <1>q, <2>1, <2>2, <2>3, <2>4, QuietMarks DEF Quiet
  <1>1. CASE RunBegins \/ Listen \/ Exec
    BY <1>1, <1>q DEF RunBegins, Listen, Exec, world
  <1>2. CASE Route
    <2>1. /\ pc = "route" /\ job \in Requests
          /\ UNCHANGED <<config, data, try, job, cut>>
      BY <1>a, <1>2 DEF Route, ServiceTypes, world
    <2>2. CASE UNCHANGED clients
      BY <1>q, <2>1, <2>2
    <2>3. ASSUME NEW status \in Verdict(shape[job]), Answers(status, FALSE)
          PROVE  Marks(r)'
      <3>1. Copies(r)' = Copies(r)
        BY <2>1, SameCopies
      <3>a. /\ \A q \in Requests : q # job => Quiet(q)
            /\ shape' = shape
            /\ \/ stage'[job] = "served" /\ ~reply'[job].ok
               \/ stage'[job] = "dropped" /\ reply'[job] = NoReply
        <4>1. status \in {200, 201, 204, 401, 404, 405} /\ stage[job] = "waiting"
          BY <1>a, <2>1 DEF Verdict, JobWaits
        <4>2. calm' \in BOOLEAN /\ cut' \in SUBSET Requests
          BY <1>a, <1>2 DEF Route
        <4>3. /\ \A q \in Requests : q # job => Quiet(q)
              /\ shape' = shape
              /\ \/ stage'[job] = "served" /\ reply'[job] = [status |-> status, ok |-> FALSE]
                 \/ stage'[job] = "dropped" /\ reply'[job] = NoReply
          BY <1>a, <2>1, <2>3, <4>1, <4>2, AnswersKeep
        <4>4. [status |-> status, ok |-> FALSE].ok = FALSE
          OBVIOUS
        <4>5. QED
          BY <4>3, <4>4
      <3>2. CASE r # job
        <4>2. Copies(r)' \subseteq Copies(r) /\ cut \subseteq cut'
          BY <2>1, <3>1
        <4>3. ~(stage[r] = "waiting" /\ Copies(r) # {})
          BY <1>a, <2>1 DEF Marks
        <4>4. QED
          BY <1>a, <1>b, <2>1, <3>1, <3>a, <3>2, <4>2, <4>3, QuietMarks
      <3>3. CASE r = job
        <4>1. stage[r] = "waiting" /\ Copies(r) = {}
          BY <1>a, <2>1, <3>3 DEF Marks, JobWaits
        <4>2. stage'[r] \in {"served", "dropped"} /\ ~reply'[r].ok
          BY <3>3, <3>a DEF NoReply
        <4>3. Cardinality(Copies(r)') = 0 /\ IsFiniteSet(Copies(r)')
          BY <3>1, <4>1, FS_EmptySet
        <4>4. QED
          BY <3>1, <4>1, <4>2, <4>3 DEF Marks
      <3>4. QED
        BY <3>2, <3>3
    <2>4. QED
      BY <1>2, <2>2, <2>3 DEF Route
  <1>3. CASE Connect
    <2>1. /\ pc = "connect" /\ UNCHANGED <<config, data, try, clients, cut>>
          /\ \/ job' = job /\ pc' \in {"connect", "send"}
             \/ job \notin Requests
      BY <1>3, JobKinds DEF Connect, world
    <2>2. QED
      BY <1>q, <2>1
  <1>4. CASE NoConnection
    <2>1. pc = "connect" /\ UNCHANGED <<config, data, job, cut>>
      BY <1>4 DEF NoConnection, world
    <2>2. CASE job = Start
      <3>1. UNCHANGED clients
        BY <1>4, <2>2 DEF NoConnection
      <3>2. QED
        BY <1>q, <2>1, <2>2, <3>1, JobKinds
    <2>3. CASE job # Start
      <3>1. Finish(FALSE)
        BY <1>4, <2>3 DEF NoConnection
      <3>2. QED
        BY <1>a, <1>b, <1>4, <2>1, <2>3, <3>1, FinishMarks DEF NoConnection
    <2>4. QED
      BY <2>2, <2>3
  <1>5. CASE Send
    <2>1. /\ pc = "send" /\ link.db \in Dbs /\ job # Start /\ Executed(link.db)
          /\ UNCHANGED <<config, job, cut>> /\ Finish(Succeeds(link.db))
      BY <1>a, <1>5 DEF Send, SessionTypes, ServiceTypes, Alive, world
    <2>2. Succeeds(link.db) \in BOOLEAN
      BY <2>1 DEF Succeeds, Base, WorldTypes, DataTypes
    <2>3. QED
      BY <1>a, <1>b, <1>5, <2>1, <2>2, FinishMarks DEF Send
  <1>6. CASE SendFindsDropped
    BY <1>a, <1>b, <1>6, AgainMarks DEF SendFindsDropped, world
  <1>7. CASE SendBreaks
    <2>1. /\ pc = "send" /\ link.db \in Dbs /\ Again
          /\ Executed(link.db) \/ UNCHANGED data
          /\ cut' = cut \cup ({job} \cap Requests)
          /\ UNCHANGED <<config, job>>
      BY <1>a, <1>7 DEF SendBreaks, SessionTypes, Alive
    <2>2. /\ cut \subseteq cut' /\ (job \in Requests => job \in cut')
          /\ cut' \in SUBSET Requests /\ calm' \in BOOLEAN
      BY <1>a, <1>7, <2>1 DEF SendBreaks
    <2>3. QED
      BY <1>b, <2>1, <2>2, AgainMarks
  <1>8. ASSUME NEW q \in Requests, Accept(q) PROVE Marks(r)'
    <2>1. /\ pc = "accept" /\ stage[q] = "waiting"
          /\ UNCHANGED <<config, data, shape, reply, cut>>
          /\ \/ stage' = [stage EXCEPT ![q] = "dropped"]
             \/ stage' = stage
      BY <1>8 DEF Accept, IsNext, Waiting, world
    <2>2. Copies(r)' = Copies(r)
      BY <2>1, SameCopies
    <2>3. CASE stage'[r] = stage[r]
      <3>1. Copies(r)' \subseteq Copies(r) /\ cut \subseteq cut'
        BY <2>1, <2>2
      <3>2. ~(stage[r] = "waiting" /\ Copies(r) # {})
        BY <1>a, <2>1 DEF Marks
      <3>3. shape'[r] = shape[r] /\ reply'[r] = reply[r]
        BY <2>1
      <3>4. QED
        BY <1>a, <1>b, <2>1, <2>2, <2>3, <3>1, <3>2, <3>3, QuietMarks DEF Quiet
    <2>4. CASE q = r /\ stage'[r] = "dropped"
      <3>1. Copies(r)' = {} /\ reply'[r] = NoReply
        BY <1>a, <2>1, <2>2, <2>4 DEF Marks, JobWaits
      <3>2. Cardinality(Copies(r)') = 0 /\ IsFiniteSet(Copies(r)')
        BY <3>1, FS_EmptySet
      <3>3. QED
        BY <2>4, <3>1, <3>2 DEF Marks, NoReply
    <2>5. QED
      BY <1>a, <2>1, <2>3, <2>4 DEF ServiceTypes
  <1>9. QED
    BY <1>1, <1>2, <1>3, <1>4, <1>5, <1>6, <1>7, <1>8 DEF Service

LEMMA NextInk == Base /\ Ink /\ [Next]_vars => Ink'
  BY SurroundingsKeepInk, ServiceKeepsInk DEF Next, Around

\* The inductive invariant.
LEMMA BaseInk == Spec => [](Base /\ Ink)
  <1>1. Init => Base /\ Ink
    BY InitBase, InitInk
  <1>2. (Base /\ Ink) /\ [Next]_vars => (Base /\ Ink)'
    BY NextBase, NextInk
  <1>3. QED
    BY <1>1, <1>2, PTL DEF Spec

(* A client told that its insert succeeded finds the row, unless a later   *)
(* request rewrote it. (buraaq_pg_exec, svc_collection)                    *)
THEOREM AcknowledgedStored == Spec => []AckMeansStored
  <1>1. Base /\ Ink => AckMeansStored
    BY DEF Ink, Marks, AckMeansStored
  <1>2. QED
    BY BaseInk, <1>1, PTL

(* A statement runs a second time only when the session broke under the    *)
(* first try, and never a third time. (buraaq_pg_exec)                     *)
THEOREM DuplicatesAreCut == Spec => []DuplicateNeedsCut
  <1>1. Base /\ Ink => DuplicateNeedsCut
    BY DEF Ink, Marks, DuplicateNeedsCut
  <1>2. QED
    BY BaseInk, <1>1, PTL

(* Nothing is written for a client without the key, but for the page on    *)
(* the loopback; locked reads are answered with the key only.              *)
(* (svc_write_allowed, svc_handle)                                         *)
THEOREM OnlyAuthorised == Spec => []Authorised
  <1>1. ASSUME Base, Ink PROVE Authorised
    <2> SUFFICES ASSUME NEW r \in Requests, config.keyed, shape[r] # NoShape, ~shape[r].key
        PROVE  /\ Copies(r) # {} => ~config.lock /\ shape[r].loopback /\ shape[r].self
               /\ reply[r].ok /\ config.lock => shape[r].path = "health"
      BY DEF Authorised
    <2>1. Marks(r) /\ shape[r] \in Shape
      BY <1>1 DEF Ink, Base, ServiceTypes
    <2>2. LetThrough(r) => \/ shape[r].path = "health"
                           \/ IsApi(shape[r]) /\ ~Refused(shape[r])
      BY <2>1 DEF LetThrough, Verdict, Shape, Paths, IsApi
    <2>3. QED
      BY <2>1, <2>2
      DEF Marks, IsInsert, IsUpdate, Refused, WriteAllowed, IsWrite, IsApi
  <1>2. Base /\ Ink => Authorised
    BY <1>1
  <1>3. QED
    BY BaseInk, <1>2, PTL

-----------------------------------------------------------------------------
(* Sessions dropped between two requests                                   *)

AtWork == pc \in {"route", "exec", "connect", "send"} /\ job \in Requests

\* While a request is not disturbed the last database is up and the first
\* that a reconnection tries; the second PQexec is on a session just opened.
Undisturbed ==
  calm /\ AtWork =>
    /\ last \in Dbs /\ up[last]
    /\ pc = "connect" => todo # <<>> /\ Head(todo) = last
    /\ pc = "send" /\ try = 2 => link.state = "ok"

LEMMA LastIsFirst ==
  ASSUME config \in Configs, last \in Dbs
  PROVE  Candidates(last) # <<>> /\ Head(Candidates(last)) = last
  <1>1. config.env \in Seq(Dbs) /\ last # NoDb
    BY ConfigsAssumption, DbsAssumption DEF Config
  <1>2. /\ (<<last>> \o config.env) \in Seq(Dbs)
        /\ Len(<<last>> \o config.env) = 1 + Len(config.env)
        /\ (<<last>> \o config.env)[1] = last
    BY <1>1, ConcatProperties
  <1>3. (<<last>> \o config.env) # <<>> /\ Head(<<last>> \o config.env) = last
    BY <1>1, <1>2
  <1>4. QED
    BY <1>1, <1>3 DEF Candidates

LEMMA InitUndisturbed == Init => Undisturbed
  BY DEF Init, Undisturbed, AtWork

LEMMA SurroundingsKeepUndisturbed ==
  ASSUME Base, Undisturbed, Around \/ UNCHANGED vars
  PROVE  Undisturbed'
  <1>1. CASE \E d \in Dbs : GoesDown(d)
    BY <1>1 DEF GoesDown, Undisturbed
  <1>2. ASSUME NEW d \in Dbs, ComesUp(d) PROVE Undisturbed'
    <2>1. UNCHANGED <<pc, job, last, todo, try, link, calm>>
      BY <1>2 DEF ComesUp, session
    <2>2. last \in Dbs /\ up[last] => up'[last]
      BY <1>2 DEF ComesUp, Base, WorldTypes
    <2>3. QED
      BY <2>1, <2>2 DEF Undisturbed, AtWork
  <1>3. CASE DropsIdle
    BY <1>3 DEF DropsIdle, Undisturbed, AtWork
  <1>4. CASE (\E r \in Requests : Arrive(r)) \/ Aside \/ UNCHANGED vars
    <2>1. UNCHANGED <<up, pc, job, last, todo, try, link, calm>>
      BY <1>4, AsideSteps DEF Arrive, Base, vars, world, session
    <2>2. QED
      BY <2>1 DEF Undisturbed, AtWork
  <1>5. QED
    BY <1>1, <1>2, <1>3, <1>4 DEF Around, Aside

LEMMA ServiceKeepsUndisturbed ==
  ASSUME Base, Undisturbed, Service
  PROVE  Undisturbed'
  <1> SUFFICES ASSUME calm', AtWork'
      PROVE  /\ last' \in Dbs /\ up'[last']
             /\ pc' = "connect" => todo' # <<>> /\ Head(todo') = last'
             /\ pc' = "send" /\ try' = 2 => link'.state = "ok"
    BY DEF Undisturbed
  <1>a. /\ WorldTypes /\ SessionTypes /\ ServiceTypes
        /\ config \in Configs /\ job \in {Start, Schema} \cup Requests
    BY DEF Base, WorldTypes, ServiceTypes
  <1>b. Start \notin Requests /\ Schema \notin Requests /\ Start # Schema
    BY JobKinds
  <1>c. ASSUME last \in Dbs
        PROVE  Candidates(last) # <<>> /\ Head(Candidates(last)) = last
    BY <1>a, <1>c, LastIsFirst
  <1>d. ASSUME NEW ok, Finish(ok) PROVE pc' \in {"listen", "accept", "dead"}
    BY <1>d DEF Finish, Answers, Delivers, LosesAnswer, Dies
  <1>1. CASE RunBegins \/ Listen
    BY <1>1, <1>a, <1>b DEF RunBegins, Listen, AtWork, ServiceTypes
  <1>2. ASSUME NEW r \in Requests, Accept(r)
        PROVE  /\ last' \in Dbs /\ up'[last'] /\ pc' \in {"accept", "route"}
    <2>1. /\ last # NoDb /\ up[last] /\ UNCHANGED <<up, last>>
          /\ pc' \in {"accept", "route"}
      BY <1>2 DEF Accept, IsNext, world, session
    <2>2. QED
      BY <1>a, <2>1 DEF SessionTypes
  <1>3. CASE Route
    <2>1. pc' = "exec" /\ UNCHANGED <<up, last, calm, job>> /\ pc = "route"
      BY <1>3 DEF Route, Answers, Delivers, LosesAnswer, Dies, AtWork, world
    <2>2. QED
      BY <2>1 DEF Undisturbed, AtWork
  <1>4. CASE Connect
    <2>1. job' = job /\ job \in Requests
      BY <1>4, <1>a, <1>b DEF Connect, AtWork
    <2>2. calm /\ AtWork /\ last \in Dbs /\ up[last] /\ Head(todo) = last /\ todo # <<>>
      BY <1>4, <2>1 DEF Connect, Undisturbed, AtWork
    <2>3. /\ pc' = "send" /\ link' = [db |-> last, state |-> "ok"] /\ last' = last
          /\ up' = up
      BY <1>4, <1>b, <2>1, <2>2 DEF Connect, world
    <2>4. QED
      BY <2>2, <2>3
  <1>5. CASE NoConnection
    <2>1. todo = <<>> /\ pc = "connect" /\ UNCHANGED <<calm, job>>
      BY <1>5 DEF NoConnection
    <2>2. ~(calm /\ AtWork)
      BY <2>1 DEF Undisturbed
    <2>3. QED
      BY <1>5, <1>d, <2>1, <2>2 DEF NoConnection, AtWork
  <1>6. CASE Exec
    <2>1. /\ pc = "exec" /\ UNCHANGED <<up, last, calm, job>> /\ try' = 1
          /\ \/ pc' = "send"
             \/ pc' = "connect" /\ todo' = Candidates(last)
      BY <1>6 DEF Exec, world
    <2>2. last \in Dbs /\ up[last]
      BY <2>1 DEF Undisturbed, AtWork
    <2>3. QED
      BY <1>c, <2>1, <2>2
  <1>7. CASE Send \/ SendBreaks
    BY <1>7, <1>d DEF Send, SendBreaks, AtWork
  <1>8. CASE SendFindsDropped
    <2>1. /\ pc = "send" /\ UNCHANGED <<up, last, calm, job>> /\ Again
          /\ link.state = "dropped"
      BY <1>8 DEF SendFindsDropped, world
    <2>2. try = 1 /\ todo' = Candidates(last) /\ pc' = "connect"
      BY <1>d, <2>1 DEF Again, AtWork
    <2>3. last \in Dbs /\ up[last]
      BY <2>1, <2>2 DEF Undisturbed, AtWork
    <2>4. QED
      BY <1>c, <2>1, <2>2, <2>3
  <1>9. QED
    BY <1>1, <1>2, <1>3, <1>4, <1>5, <1>6, <1>7, <1>8 DEF Service

\* The answer of an undisturbed request.
LEMMA UnseenStep ==
  ASSUME Base, Undisturbed, [Next]_vars, NEW r \in Requests,
         stage'[r] = "served", stage[r] # "served", calm, calm',
         Verdict(shape[r]) = {}, shape[r].path = "health" \/ table[last]
  PROVE  reply'[r].ok
  <1>a. /\ SessionTypes /\ ServiceTypes /\ stage \in [Requests -> {"new", "waiting",
              "served", "dropped"}]
        /\ reply \in [Requests -> Replies]
    BY DEF Base, ServiceTypes
  <1>b. ASSUME NEW status, NEW ok, Answers(status, ok), job \in Requests
        PROVE  r = job /\ reply'[r].ok = ok
    <2>0. ~LosesAnswer /\ ~Dies
      BY <1>a DEF LosesAnswer, Dies
    <2>1. stage' = [stage EXCEPT ![job] = "served"]
          /\ reply' = [reply EXCEPT ![job] = [status |-> status, ok |-> ok]]
      BY <1>b, <2>0 DEF Answers, Delivers
    <2>2. r = job
      BY <1>a, <2>1
    <2>3. reply'[job] = [status |-> status, ok |-> ok]
      BY <1>a, <1>b, <2>1
    <2>4. QED
      BY <2>2, <2>3
  <1>c. ASSUME NEW ok, Finish(ok), pc \in {"connect", "send"}, pc = "connect" => job # Start
        PROVE  r = job /\ job \in Requests /\ reply'[r].ok = ok
    <2>1. job # Schema
      BY <1>c DEF Finish, clients
    <2>2. job \in Requests
      BY <1>a, <1>c, <2>1 DEF ServiceTypes
    <2>3. QED
      BY <1>b, <1>c, <2>1, <2>2 DEF Finish
  <1>1. stage' # stage
    OBVIOUS
  <1>2. CASE Send
    <2>1. pc = "send" /\ link.state = "ok" /\ Finish(Succeeds(link.db))
      BY <1>2 DEF Send
    <2>2. r = job /\ reply'[r].ok = Succeeds(link.db)
      BY <1>c, <2>1
    <2>3. link.db = last
      BY <1>a, <2>1 DEF SessionTypes, Alive
    <2>4. Succeeds(link.db)
      BY <2>2, <2>3 DEF Succeeds
    <2>5. QED
      BY <2>2, <2>4
  <1>3. ~Route
    <2>1. ASSUME Route PROVE FALSE
      <3>1. job \in Requests
        BY <1>a, <2>1 DEF Route, ServiceTypes
      <3>2. PICK status \in Verdict(shape[job]) : Answers(status, FALSE)
        BY <1>1, <2>1 DEF Route, clients
      <3>3. QED
        BY <1>b, <3>1, <3>2
    <2>2. QED
      BY <2>1
  <1>4. ~NoConnection
    <2>1. ASSUME NoConnection PROVE FALSE
      <3>1. todo = <<>> /\ pc = "connect" /\ job # Start /\ Finish(FALSE)
        BY <1>1, <2>1 DEF NoConnection, clients
      <3>2. job \in Requests
        BY <1>c, <3>1
      <3>3. QED
        BY <3>1, <3>2 DEF Undisturbed, AtWork
    <2>2. QED
      BY <2>1
  <1>5. ~SendFindsDropped
    <2>1. ASSUME SendFindsDropped PROVE FALSE
      <3>1. pc = "send" /\ link.state = "dropped" /\ Again
        BY <2>1 DEF SendFindsDropped
      <3>2. try # 1 /\ Finish(FALSE)
        BY <1>1, <3>1 DEF Again, clients
      <3>3. job \in Requests /\ try = 2
        BY <1>a, <1>c, <3>1, <3>2 DEF SessionTypes
      <3>4. QED
        BY <3>1, <3>3 DEF Undisturbed, AtWork
    <2>2. QED
      BY <2>1
  <1>6. ~SendBreaks
    BY DEF SendBreaks
  <1>7. ~(RunBegins \/ Listen \/ Connect \/ Exec)
    BY <1>1 DEF RunBegins, Listen, Connect, Exec, clients
  <1>8. ASSUME NEW q \in Requests, Accept(q) \/ Arrive(q) PROVE FALSE
    BY <1>8, <1>a DEF Accept, Arrive
  <1>9. /\ ~(DropsIdle \/ UNCHANGED vars \/ \E d \in Dbs : GoesDown(d) \/ ComesUp(d))
        /\ ~Aside
    BY <1>1, AsideSteps DEF DropsIdle, GoesDown, ComesUp, vars, clients, Base
  <1>10. QED
    BY <1>2, <1>3, <1>4, <1>5, <1>6, <1>7, <1>8, <1>9 DEF Next, Service, Aside

(* A session that was dropped between two requests is re-opened unseen:    *)
(* with the last database up and undisturbed, a request that is let        *)
(* through to an existing table succeeds. (buraaq_pg_exec)                 *)
THEOREM DropsAreUnseen == Spec => IdleDropUnseen
  <1>1. Init => Base /\ Undisturbed
    BY InitBase, InitUndisturbed
  <1>2. (Base /\ Undisturbed) /\ [Next]_vars => (Base /\ Undisturbed)'
    BY NextBase, SurroundingsKeepUndisturbed, ServiceKeepsUndisturbed DEF Next, Around
  <1>3. (Base /\ Undisturbed) /\ [Next]_vars =>
          [\A r \in Requests :
             (stage'[r] = "served" /\ stage[r] # "served" /\ calm /\ calm'
                /\ Verdict(shape[r]) = {} /\ (shape[r].path = "health" \/ table[last]))
               => reply'[r].ok]_vars
    BY UnseenStep
  <1>4. QED
    BY <1>1, <1>2, <1>3, PTL DEF Spec, IdleDropUnseen
=============================================================================
