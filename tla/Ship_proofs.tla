---------------------------- MODULE Ship_proofs ----------------------------
(***************************************************************************)
(* Proofs about Ship, for every set of commands, clients and scenes and    *)
(* any number of mishaps: who has a token is let in, the dock stores whole *)
(* uploads of those who have one, and a command that runs beside no other  *)
(* executes the build that it packed.                                      *)
(***************************************************************************)
EXTENDS Ship, SequenceTheorems, TLAPS

Serving == {"read", "act", "open", "write", "reply"}
Bound == {"bind", "accept"} \cup Serving

Steps == {"new", "pack bin", "pack pkg", "close", "launch", "put", "read", "open",
          "write", "running", "sent", "ended"}
Stages == {"new", "waiting", "served", "dropped"}

Types ==
  /\ scene \in Scenes /\ scene.env \in BOOLEAN
  /\ token \in Int /\ saved \in Int /\ tokens \in Nat
  /\ cred \in [Peers -> Int] /\ stage \in [Peers -> Stages]
  /\ reply \in [Peers -> Int] /\ status \in Int
  /\ cpc \in [Commands -> Steps]

\* From the socket on, the memory holds the variable's token or the file's,
\* if there is one; and nothing is saved over a file.
MemoryOfFile ==
  /\ scene.env => saved = NoToken
  /\ dpc = "save" => saved = NoToken /\ ~scene.env
  /\ (dpc \in Bound /\ scene.env) => token = EnvToken
  /\ (dpc \in Bound /\ saved # NoToken) => token = saved

\* Nobody has another token than those, and who waits has no answer.
Peerage ==
  \A r \in Peers :
    /\ cred[r] = NoToken \/ cred[r] = Copied
    /\ stage[r] \in {"new", "waiting"} => reply[r] = 0
    /\ reply[r] = 401 => cred[r] = NoToken

Packing == {"pack bin", "pack pkg", "close"}

\* A command sends nothing before it has packed what it was started to pack.
CommandsWait ==
  \A c \in Commands :
    /\ cpc[c] \notin {"sent", "ended"} => stage[c] = "new"
    /\ cpc[c] = "new" => scene.kind[c] # "none"
    /\ cpc[c] \in Packing => scene.kind[c] \in {"pack", "local", "host"}

\* The request that is served waits for its answer.
JobWaits ==
  /\ dpc \in Serving => job \in Peers /\ stage[job] = "waiting"
  /\ (dpc = "reply" /\ status = 401) => cred[job] = NoToken

Tokens == Types /\ MemoryOfFile /\ Peerage /\ CommandsWait /\ JobWaits

LEMMA SceneFacts ==
  ASSUME scene \in Scenes
  PROVE  /\ scene.env \in BOOLEAN /\ scene.dock \in BOOLEAN
         /\ \A c \in Commands : scene.kind[c] \in Kinds
  BY ScenesAssumption DEF Scene

LEMMA StepNames == \A n \in {"new", "pack bin", "pack pkg", "close", "launch", "put",
                              "read", "open", "write", "running", "sent", "ended"} : n \in Steps
  BY DEF Steps

LEMMA StageNames ==
  "new" \in Stages /\ "waiting" \in Stages /\ "served" \in Stages /\ "dropped" \in Stages
  BY DEF Stages

LEMMA EnvTokenIsInt == EnvToken \in Int
  BY DEF EnvToken

\* What a request is answered with: at once, for its token, or by what it asks.
LEMMA VerdictOf ==
  ASSUME NEW a
  PROVE  \/ Verdict(a) \in {200, 400, 404}
         \/ Verdict(a) = 401 /\ ~Authed
         \/ Verdict(a) = AppVerdict(a) /\ Authed
  <1>1. CASE a.sent = "nothing"
    <2>1. Verdict(a) = 404
      BY <1>1 DEF Verdict
    <2>2. QED
      BY <2>1
  <1>2. CASE ~(a.sent = "nothing") /\ (a.huge /\ a.sent # "head")
    <2>1. Verdict(a) = 400
      BY <1>2 DEF Verdict
    <2>2. QED
      BY <2>1
  <1>3. CASE ~(a.sent = "nothing") /\ ~(a.huge /\ a.sent # "head")
    <2>1. ASSUME a.path = "health"
          PROVE  Verdict(a) = IF a.method = "GET" THEN 200 ELSE 404
      BY <1>3, <2>1 DEF Verdict
    <2>2. ASSUME a.path = "apps"
          PROVE  Verdict(a) = IF a.method # "GET" THEN 404 ELSE IF Authed THEN 200 ELSE 401
      BY <1>3, <2>2 DEF Verdict
    <2>3. ASSUME a.path = "elsewhere" PROVE Verdict(a) = 404
      BY <1>3, <2>3 DEF Verdict
    <2>4. ASSUME a.path = "bad name" PROVE Verdict(a) = 400
      BY <1>3, <2>4 DEF Verdict
    <2>5. ASSUME a.path \notin {"health", "apps", "elsewhere", "bad name"}
          PROVE  Verdict(a) = IF Authed THEN AppVerdict(a) ELSE 401
      BY <1>3, <2>5 DEF Verdict
    <2>6. QED
      BY <2>1, <2>2, <2>3, <2>4, <2>5
  <1>4. QED
    BY <1>1, <1>2, <1>3

\* 401 is for a peer whose token is not the dock's.
LEMMA RefusedIsUnauthed == ASSUME NEW a, Authed PROVE Verdict(a) # 401
  <1>1. AppVerdict(a) # 401
    BY DEF AppVerdict
  <1>2. QED
    BY <1>1, VerdictOf

LEMMA VerdictIsStatus ==
  ASSUME NEW a PROVE Verdict(a) \in {0, 200, 204, 400, 401, 404, 405}
  <1>1. AppVerdict(a) \in {0, 200, 204, 404, 405}
    BY DEF AppVerdict
  <1>2. QED
    BY <1>1, VerdictOf

\* What the dock takes for a request to store is an upload whose token it knows.
LEMMA VerdictRefuses ==
  ASSUME NEW a PROVE (a.method = "PUT" /\ Authed) \/ Verdict(a) # 0
  <1>1. a.method = "PUT" \/ AppVerdict(a) # 0
    BY DEF AppVerdict
  <1>2. QED
    BY <1>1, VerdictOf

LEMMA InitTokens == Init => Tokens
  <1> SUFFICES ASSUME Init PROVE Tokens
    OBVIOUS
  <1>1. Types
    <2>1. cpc \in [Commands -> Steps] /\ stage \in [Peers -> Stages]
      BY StepNames, StageNames DEF Init
    <2>2. cred \in [Peers -> Int] /\ reply \in [Peers -> Int]
      BY DEF Init, NoToken
    <2>3. QED
      BY <2>1, <2>2, SceneFacts DEF Init, Types, NoToken
  <1>2. MemoryOfFile /\ Peerage /\ CommandsWait /\ JobWaits
    BY SceneFacts
    DEF Init, MemoryOfFile, Peerage, Copied, CommandsWait, JobWaits, Bound, Serving, NoToken,
        Peers, Packing
  <1>3. QED
    BY <1>1, <1>2 DEF Tokens

\* A step of a command on the files.
LEMMA CommandStep ==
  ASSUME Tokens, UNCHANGED scene, DockIdle, UNCHANGED peers,
         NEW c \in Commands, NEW where,
         where \in Steps, where \notin {"new", "sent"},
         cpc' = [cpc EXCEPT ![c] = where],
         cpc[c] \notin {"sent", "ended"} \/ where = "ended",
         where \in Packing => scene.kind[c] \in {"pack", "local", "host"}
  PROVE  Tokens'
  <1> USE DEF Tokens, DockIdle, store, peers
  <1>1. Types'
    BY DEF Types
  <1>2. MemoryOfFile' /\ Peerage' /\ JobWaits'
    BY DEF MemoryOfFile, Peerage, JobWaits, Copied
  <1>3. CommandsWait'
    BY DEF CommandsWait, Types
  <1>4. QED
    BY <1>1, <1>2, <1>3

LEMMA CommandsKeepTokens ==
  ASSUME Tokens, NEW c \in Commands, Command(c)
  PROVE  Tokens'
  <1>a. CommandsWait /\ scene.kind[c] \in Kinds
    BY SceneFacts DEF Tokens, Types
  <1>1. CASE Start(c)
    BY <1>a, <1>1, CommandStep, StepNames DEF Start, Goes, CommandsWait, Packing, Kinds
  <1>2. CASE Pack(c)
    BY <1>a, <1>2, CommandStep, StepNames DEF Pack, Goes, CommandsWait, Packing
  <1>3. CASE PackFails(c)
    BY <1>3, CommandStep, StepNames DEF PackFails, End, Packing
  <1>4. CASE Close(c)
    <2>1. scene.kind[c] \in {"pack", "local", "host"} /\ cpc[c] = "close"
      BY <1>a, <1>4 DEF Close, CommandsWait, Packing
    <2>2. CASE End(c, 0)
      BY <1>4, <2>1, <2>2, CommandStep, StepNames DEF Close, End, Packing
    <2>3. CASE Goes(c, "launch") \/ Goes(c, "put")
      BY <1>4, <2>1, <2>3, CommandStep, StepNames DEF Close, Goes, Packing
    <2>4. QED
      BY <1>4, <2>1, <2>2, <2>3 DEF Close
  <1>5. CASE LaunchOpens(c)
    BY <1>5, CommandStep, StepNames DEF LaunchOpens, End, Goes, Packing
  <1>6. CASE Reads(c)
    BY <1>6, CommandStep, StepNames DEF Reads, Goes, Packing
  <1>7. CASE Opens(c)
    BY <1>7, CommandStep, StepNames DEF Opens, Goes, Packing
  <1>8. CASE Writes(c)
    BY <1>8, CommandStep, StepNames DEF Writes, Goes, Packing
  <1>9. CASE Execute(c)
    BY <1>9, CommandStep, StepNames DEF Execute, End, Goes, Packing
  <1>10. CASE Exits(c)
    BY <1>10, CommandStep, StepNames DEF Exits, End, Packing
  <1>11. CASE Sends(c)
    <2>1. cpc[c] = "put" /\ UNCHANGED <<scene, reply>> /\ DockIdle
      BY <1>11 DEF Sends
    <2>2. CASE End(c, 1) /\ UNCHANGED <<ask, cred, body, stage>>
      BY <1>11, <2>1, <2>2, CommandStep, StepNames DEF Sends, End, peers, Packing
    <2>3. ASSUME Goes(c, "sent"), NEW t \in {NoToken, Copied},
                 cred' = [cred EXCEPT ![c] = t],
                 stage' = [stage EXCEPT ![c] = "waiting"]
          PROVE  Tokens'
      <3> USE DEF Tokens, DockIdle, store
      <3>1. c \in Peers /\ stage[c] = "new" /\ reply[c] = 0
        BY <2>1 DEF CommandsWait, Peerage, Peers
      <3>2. cpc' = [cpc EXCEPT ![c] = "sent"]
        BY <2>3 DEF Goes
      <3>3. t \in Int
        BY <2>3, EnvTokenIsInt DEF Copied, Types, NoToken
      <3>4. Types'
        BY <2>1, <2>3, <3>1, <3>2, <3>3, StageNames, StepNames DEF Types
      <3>5. MemoryOfFile' /\ Peerage'
        BY <2>1, <2>3, <3>1, <3>3 DEF MemoryOfFile, Peerage, Types, Copied
      <3>6. CommandsWait'
        BY <2>1, <2>3, <3>2 DEF CommandsWait, Types, Peers, Packing
      <3>7. dpc \in Serving => job # c
        BY <3>1 DEF JobWaits
      <3>8. JobWaits'
        BY <2>1, <2>3, <3>1, <3>7 DEF JobWaits, Types, Serving
      <3>9. QED
        BY <3>4, <3>5, <3>6, <3>8
    <2>4. QED
      BY <1>11, <2>2, <2>3 DEF Sends
  <1>12. CASE Hears(c)
    BY <1>12, CommandStep, StepNames DEF Hears, End, Packing
  <1>13. QED
    BY <1>1, <1>2, <1>3, <1>4, <1>5, <1>6, <1>7, <1>8, <1>9, <1>10, <1>11, <1>12 DEF Command

\* Steps of the clients, and what happens to the files.
LEMMA OthersKeepTokens ==
  ASSUME Tokens, Alter \/ (\E r \in Clients : Arrives(r) \/ Leaves(r)) \/ UNCHANGED vars
  PROVE  Tokens'
  <1> USE DEF Tokens, DockIdle, store, command
  <1>1. CASE Alter \/ (\E r \in Clients : Leaves(r)) \/ UNCHANGED vars
    <2>1. UNCHANGED <<scene, dpc, job, store, status, cred, stage, reply, cpc>>
      BY <1>1 DEF Alter, Leaves, vars, peers
    <2>2. QED
      BY <2>1 DEF Types, MemoryOfFile, Peerage, CommandsWait, JobWaits, Copied
  <1>2. ASSUME NEW r \in Clients, Arrives(r) PROVE Tokens'
    <2>1. /\ stage[r] = "new" /\ UNCHANGED <<scene, reply, cpc>> /\ DockIdle
          /\ stage' = [stage EXCEPT ![r] = "waiting"]
      BY <1>2 DEF Arrives
    <2>2. PICK t : /\ t = NoToken \/ t = Copied
                   /\ cred' = [cred EXCEPT ![r] = t]
      BY <1>2 DEF Arrives
    <2>3. r \in Peers /\ r \notin Commands /\ reply[r] = 0
      BY <2>1, NamesAssumption DEF Peers, Peerage
    <2>4. t \in Int
      BY <2>2, EnvTokenIsInt DEF Copied, Types, NoToken
    <2>5. Types'
      BY <2>1, <2>2, <2>3, <2>4, StageNames DEF Types
    <2>6. MemoryOfFile' /\ Peerage'
      BY <2>1, <2>2, <2>3, <2>4 DEF MemoryOfFile, Peerage, Types, Copied
    <2>7. CommandsWait'
      BY <2>1, <2>3 DEF CommandsWait, Types, Peers
    <2>8. dpc \in Serving => job # r
      BY <2>1 DEF JobWaits
    <2>9. JobWaits'
      BY <2>1, <2>2, <2>3, <2>8 DEF JobWaits, Types, Serving
    <2>10. QED
      BY <2>5, <2>6, <2>7, <2>9
  <1>3. QED
    BY <1>1, <1>2

\* A step of the dock that leaves its peers and its tokens alone.
LEMMA DockGoesOn ==
  ASSUME Tokens, UNCHANGED <<scene, cpc, cred, stage, reply, token, saved, tokens>>,
         status' \in Int,
         dpc' = "save" => dpc = "save",
         dpc' \in Bound => dpc \in Bound,
         dpc' \in Serving => job' \in Peers /\ stage[job'] = "waiting",
         (dpc' = "reply" /\ status' = 401) => cred[job'] = NoToken
  PROVE  Tokens'
  <1> USE DEF Tokens
  <1>1. Types' /\ CommandsWait'
    BY DEF Types, CommandsWait
  <1>2. MemoryOfFile' /\ Peerage' /\ JobWaits'
    BY DEF MemoryOfFile, Peerage, JobWaits, Copied
  <1>3. QED
    BY <1>1, <1>2

\* Death and the answer drop or serve those who waited.
LEMMA DropsKeep ==
  ASSUME Tokens, UNCHANGED <<scene, cpc, cred, saved, tokens>>,
         dpc' \in {"down", "stopped", "accept"}, status' = 0,
         dpc' = "accept" => dpc \in Bound,
         token' \in Int, dpc' = "accept" => token' = token,
         stage' \in [Peers -> Stages],
         reply' \in [Peers -> Int],
         \A r \in Peers : /\ stage'[r] = "new" <=> stage[r] = "new"
                          /\ stage'[r] = "waiting" => stage[r] = "waiting" /\ reply'[r] = reply[r]
                          /\ \/ reply'[r] = reply[r]
                             \/ stage[r] = "waiting" /\ (reply'[r] = 401 => cred[r] = NoToken)
  PROVE  Tokens'
  <1> USE DEF Tokens
  <1>1. Types'
    BY DEF Types, Bound
  <1>2. MemoryOfFile'
    BY DEF MemoryOfFile, Bound, Serving
  <1>3. Peerage'
    <2> SUFFICES ASSUME NEW r \in Peers
        PROVE  /\ cred'[r] = NoToken \/ cred'[r] = Copied'
               /\ stage'[r] \in {"new", "waiting"} => reply'[r] = 0
               /\ reply'[r] = 401 => cred'[r] = NoToken
      BY DEF Peerage, Copied
    <2>1. QED
      BY DEF Peerage, Copied
  <1>4. CommandsWait'
    BY DEF CommandsWait, Peers
  <1>5. JobWaits'
    BY DEF JobWaits, Serving
  <1>6. QED
    BY <1>1, <1>2, <1>3, <1>4, <1>5

\* The process ends.
LEMMA DeathKeepsTokens == ASSUME Tokens, Dies PROVE Tokens'
  <1>1. /\ dpc' = "down" /\ token' = NoToken /\ status' = 0 /\ stage' = AllDropped
        /\ UNCHANGED <<scene, cpc, cred, saved, tokens, reply>>
    BY DEF Dies, Machine, command
  <1>2. Types
    BY DEF Tokens
  <1>3. /\ stage' \in [Peers -> Stages]
        /\ \A r \in Peers : /\ stage'[r] = "new" <=> stage[r] = "new"
                            /\ stage'[r] # "waiting"
    BY <1>1, <1>2, StageNames DEF AllDropped, Types
  <1>4. token' \in Int /\ reply' \in [Peers -> Int] /\ \A r \in Peers : reply'[r] = reply[r]
    BY <1>1, <1>2 DEF Types, NoToken
  <1>5. QED
    BY <1>1, <1>3, <1>4, DropsKeep

\* Steps of the dock's thread.
LEMMA DockKeepsTokens ==
  ASSUME Tokens, Dock
  PROVE  Tokens'
  <1>a. Types /\ MemoryOfFile /\ Peerage /\ CommandsWait /\ JobWaits
    BY DEF Tokens
  <1>1. CASE DockStarts \/ Bind \/ Read \/ PutOpens \/ PutWrites
    <2>1. UNCHANGED <<scene, cpc, cred, stage, reply, token, saved, tokens, job>>
      BY <1>1 DEF DockStarts, Bind, Read, PutOpens, PutWrites, Machine, command, store, peers
    <2>2. \/ dpc = "down" /\ dpc' = "token" /\ UNCHANGED status
          \/ dpc = "bind" /\ dpc' \in {"accept", "stopped"} /\ UNCHANGED status
          \/ dpc \in Serving /\ dpc' \in {"act", "write"} /\ UNCHANGED status
          \/ dpc \in Serving /\ dpc' = "reply" /\ status' \in {500, 201}
      BY <1>1 DEF DockStarts, Bind, Read, PutOpens, PutWrites, Answer, Serving
    <2>3. QED
      BY <1>a, <2>1, <2>2, DockGoesOn DEF Types, JobWaits, Bound, Serving
  <1>2. ASSUME NEW r \in Peers, DockAccepts(r) PROVE Tokens'
    <2>1. /\ dpc = "accept" /\ stage[r] = "waiting" /\ job' = r /\ dpc' = "read"
          /\ UNCHANGED <<scene, cpc, cred, stage, reply, token, saved, tokens, status>>
      BY <1>2 DEF DockAccepts, Machine, command, store, peers
    <2>2. QED
      BY <1>a, <2>1, DockGoesOn DEF Types, Bound, Serving
  <1>3. CASE Act
    <2>1. /\ dpc = "act" /\ dpc' \in {"open", "reply"}
          /\ UNCHANGED <<scene, cpc, cred, stage, reply, token, saved, tokens, job>>
          /\ status' = status \/ status' = Verdict(ask[job])
          /\ dpc' = "reply" => status' = Verdict(ask[job])
      BY <1>3 DEF Act, Answer, Machine, command, peers
    <2>2. status' \in Int
      BY <1>a, <2>1, VerdictIsStatus DEF Types
    <2>3. job \in Peers /\ stage[job] = "waiting"
      BY <1>a, <2>1 DEF JobWaits, Serving
    <2>4. (dpc' = "reply" /\ status' = 401) => cred[job] # token
      BY <2>1, RefusedIsUnauthed DEF Authed
    <2>5. cred[job] # token => cred[job] = NoToken
      BY <1>a, <2>1, <2>3, SceneFacts DEF Peerage, MemoryOfFile, Copied, Bound, Serving, Types
    <2>6. QED
      BY <2>1, <2>2, <2>3, <2>4, <2>5, DockGoesOn DEF Bound, Serving
  <1>4. CASE Token
    <2>1. /\ dpc = "token"
          /\ UNCHANGED <<scene, cpc, cred, stage, reply, saved, job, status>>
          /\ \/ scene.env /\ token' = EnvToken /\ dpc' = "bind" /\ UNCHANGED tokens
             \/ ~scene.env /\ saved # NoToken /\ token' = saved /\ dpc' = "bind"
                  /\ UNCHANGED tokens
             \/ ~scene.env /\ saved = NoToken /\ tokens' = tokens + 1
                  /\ token' = tokens + 1 /\ dpc' = "save"
      BY <1>4 DEF Token, Machine, command, peers
    <2>2. Types'
      BY <1>a, <2>1, EnvTokenIsInt DEF Types, Bound
    <2>3. MemoryOfFile'
      BY <1>a, <2>1 DEF MemoryOfFile, Bound, Serving
    <2>4. Peerage' /\ CommandsWait' /\ JobWaits'
      BY <1>a, <2>1 DEF Peerage, Copied, CommandsWait, JobWaits, Serving
    <2>5. QED
      BY <2>2, <2>3, <2>4 DEF Tokens
  <1>5. CASE SaveToken
    <2>1. /\ dpc = "save" /\ dpc' = "bind" /\ (saved' = saved \/ saved' = token)
          /\ UNCHANGED <<scene, cpc, cred, stage, reply, token, tokens, job, status>>
      BY <1>5 DEF SaveToken, Machine, command, peers
    <2>2. saved = NoToken /\ ~scene.env
      BY <1>a, <2>1 DEF MemoryOfFile
    <2>3. Types'
      BY <1>a, <2>1 DEF Types, Bound
    <2>4. MemoryOfFile' /\ CommandsWait' /\ JobWaits'
      BY <1>a, <2>1, <2>2 DEF MemoryOfFile, CommandsWait, JobWaits, Serving
    <2>5. Peerage'
      BY <1>a, <2>1, <2>2 DEF Peerage, Copied
    <2>6. QED
      BY <2>3, <2>4, <2>5 DEF Tokens
  <1>6. CASE Reply
    <2>1. /\ dpc = "reply" /\ job \in Peers /\ stage[job] = "waiting"
          /\ UNCHANGED <<scene, cpc, cred, saved, tokens, token>>
          /\ dpc' \in {"stopped", "accept"} /\ status' = 0
          /\ reply' = IF gone[job] THEN reply ELSE [reply EXCEPT ![job] = status]
          /\ stage' = [(IF scene.once THEN AllDropped ELSE stage) EXCEPT
                         ![job] = IF gone[job] THEN "dropped" ELSE "served"]
      BY <1>a, <1>6 DEF Reply, Machine, command, store, JobWaits, Serving
    <2>2. /\ stage' \in [Peers -> Stages]
          /\ \A r \in Peers : /\ stage'[r] = "new" <=> stage[r] = "new"
                              /\ stage'[r] = "waiting" => r # job /\ stage[r] = "waiting"
      BY <1>a, <2>1, StageNames DEF AllDropped, Types
    <2>3. /\ reply' \in [Peers -> Int]
          /\ \A r \in Peers : r # job => reply'[r] = reply[r]
          /\ reply'[job] = reply[job] \/ reply'[job] = status
      BY <1>a, <2>1 DEF Types
    <2>4. reply'[job] = 401 => cred[job] = NoToken
      BY <1>a, <2>1, <2>3 DEF JobWaits, Peerage
    <2>5. dpc \in Bound
      BY <2>1 DEF Bound, Serving
    <2>6. \A r \in Peers :
            /\ stage'[r] = "new" <=> stage[r] = "new"
            /\ stage'[r] = "waiting" => stage[r] = "waiting" /\ reply'[r] = reply[r]
            /\ \/ reply'[r] = reply[r]
               \/ stage[r] = "waiting" /\ (reply'[r] = 401 => cred[r] = NoToken)
      BY <2>1, <2>2, <2>3, <2>4
    <2>7. token' \in Int /\ (dpc' = "accept" => token' = token)
      BY <1>a, <2>1 DEF Types
    <2>8. QED
      BY <2>1, <2>2, <2>3, <2>5, <2>6, <2>7, DropsKeep
  <1>7. QED
    BY <1>1, <1>2, <1>3, <1>4, <1>5, <1>6 DEF Dock

LEMMA NextTokens == Tokens /\ [Next]_vars => Tokens'
  BY CommandsKeepTokens, OthersKeepTokens, DeathKeepsTokens, DockKeepsTokens
  DEF Next, Pipe, Killed

(* Whoever copied a token from the file is let in for good, over crashes   *)
(* and restarts. (bq_dock_token)                                           *)
THEOREM KeyholdersAreServed == Spec => []KeyholdersServed
  <1>1. Tokens => KeyholdersServed
    BY DEF Tokens, Peerage, KeyholdersServed
  <1>2. QED
    BY InitTokens, NextTokens, <1>1, PTL DEF Spec

-----------------------------------------------------------------------------
(* What the dock has stored *)

\* A peer that has not come has asked for nothing; from the socket on there is
\* a token, and whom the dock lets write has shown it.
Asking ==
  /\ DOMAIN ask = Peers /\ DOMAIN body = Peers /\ DOMAIN cred = Peers
  /\ \A r \in Peers : stage[r] = "new" => ask[r] = NoAsk
  /\ dpc \in Bound \cup {"save"} => token # NoToken
  /\ dpc \in {"open", "write"} => ask[job].method = "PUT" /\ cred[job] # NoToken

Stored == Asking /\ StoredWhole

\* A peer that comes adds its upload to the others.
LEMMA ComesKeepsStored ==
  ASSUME Tokens, Stored, NEW r \in Peers, stage[r] = "new", NEW a, NEW t, NEW b,
         ask' = [ask EXCEPT ![r] = a], cred' = [cred EXCEPT ![r] = t],
         body' = [body EXCEPT ![r] = b],
         stage' = [stage EXCEPT ![r] = "waiting"],
         UNCHANGED <<dpc, job, token, live, status, torn>>
  PROVE  Stored'
  <1>a. Asking /\ StoredWhole /\ JobWaits /\ Types
    BY DEF Stored, Tokens
  <1>1. dpc \in Serving => job \in Peers /\ job # r
    BY <1>a DEF JobWaits
  <1>2. \A q \in Peers \ {r} : ask'[q] = ask[q] /\ cred'[q] = cred[q] /\ body'[q] = body[q]
    BY <1>a DEF Asking
  <1>3. Asking'
    <2>1. dpc \in {"open", "write"} => dpc \in Serving
      BY DEF Serving
    <2>2. QED
      BY <1>a, <1>1, <1>2, <2>1 DEF Asking, Types
  <1>4. Uploads \subseteq Uploads'
    BY <1>a, <1>2 DEF Uploads, Asking
  <1>5. dpc = "reply" => dpc \in Serving
    BY DEF Serving
  <1>6. StoredWhole'
    BY <1>a, <1>1, <1>2, <1>4, <1>5 DEF StoredWhole
  <1>7. QED
    BY <1>3, <1>6 DEF Stored

\* A step that stores nothing and says nothing of it.
LEMMA StoredStays ==
  ASSUME Stored, UNCHANGED <<ask, cred, body, live, torn>>,
         \A r \in Peers : stage'[r] = "new" => stage[r] = "new",
         dpc' \in Bound \cup {"save"} => token' # NoToken,
         dpc' \in {"open", "write"} =>
           ask[job'].method = "PUT" /\ cred[job'] # NoToken,
         dpc' = "reply" =>
           status' # 201 \/ (UNCHANGED <<job, status>> /\ dpc = "reply")
  PROVE  Stored'
  <1>1. Asking'
    BY DEF Stored, Asking
  <1>2. Uploads' = Uploads
    BY DEF Uploads
  <1>3. StoredWhole'
    BY <1>2 DEF Stored, StoredWhole
  <1>4. QED
    BY <1>1, <1>3 DEF Stored

LEMMA InitStored == Init => Stored
  BY DEF Init, Stored, Asking, StoredWhole, Bound, Serving, Peers

LEMMA CommandsKeepStored ==
  ASSUME Tokens, Stored, NEW c \in Commands, Command(c)
  PROVE  Stored'
  <1>a. CommandsWait /\ c \in Peers
    BY DEF Tokens, Peers
  <1>1. CASE Sends(c)
    <2>1. UNCHANGED <<dpc, job, token, live, status, torn>>
      BY <1>1 DEF Sends, DockIdle, store
    <2>2. CASE UNCHANGED <<ask, cred, body, stage>>
      BY <2>1, <2>2, StoredStays DEF Stored, Asking
    <2>3. CASE ~ UNCHANGED <<ask, cred, body, stage>>
      <3>1. cpc[c] = "put" /\ stage[c] = "new"
        BY <1>a, <1>1 DEF Sends, CommandsWait
      <3>2. PICK a, t, b : /\ ask' = [ask EXCEPT ![c] = a] /\ cred' = [cred EXCEPT ![c] = t]
                           /\ body' = [body EXCEPT ![c] = b]
                           /\ stage' = [stage EXCEPT ![c] = "waiting"]
        BY <1>1, <2>3 DEF Sends
      <3>3. QED
        BY <1>a, <2>1, <3>1, <3>2, ComesKeepsStored
    <2>4. QED
      BY <2>2, <2>3
  <1>2. CASE ~Sends(c)
    <2>1. UNCHANGED peers /\ DockIdle
      BY <1>2 DEF Command, Start, Pack, PackFails, Close, LaunchOpens, Reads, Opens, Writes,
                  Execute, Exits, Hears
    <2>2. QED
      BY <2>1, StoredStays DEF peers, DockIdle, store, Stored, Asking
  <1>3. QED
    BY <1>1, <1>2

LEMMA OthersKeepStored ==
  ASSUME Tokens, Stored, Alter \/ (\E r \in Clients : Arrives(r) \/ Leaves(r)) \/ UNCHANGED vars
  PROVE  Stored'
  <1>1. CASE Alter \/ (\E r \in Clients : Leaves(r)) \/ UNCHANGED vars
    <2>1. UNCHANGED <<dpc, job, token, live, status, torn, ask, cred, body, stage>>
      BY <1>1 DEF Alter, Leaves, vars, peers, DockIdle, store
    <2>2. QED
      BY <2>1, StoredStays DEF Stored, Asking
  <1>2. ASSUME NEW r \in Clients, Arrives(r) PROVE Stored'
    <2>1. UNCHANGED <<dpc, job, token, live, status, torn>> /\ stage[r] = "new" /\ r \in Peers
      BY <1>2 DEF Arrives, DockIdle, store, Peers
    <2>2. PICK a, t, b : /\ ask' = [ask EXCEPT ![r] = a] /\ cred' = [cred EXCEPT ![r] = t]
                         /\ body' = [body EXCEPT ![r] = b]
                         /\ stage' = [stage EXCEPT ![r] = "waiting"]
      BY <1>2 DEF Arrives
    <2>3. QED
      BY <2>1, <2>2, ComesKeepsStored
  <1>3. QED
    BY <1>1, <1>2

LEMMA DeathKeepsStored == ASSUME Tokens, Stored, Dies PROVE Stored'
  <1>1. /\ dpc' = "down" /\ UNCHANGED <<live, torn, ask, cred, body>>
        /\ stage' = [r \in Peers |-> IF stage[r] = "waiting" THEN "dropped" ELSE stage[r]]
    BY DEF Dies, AllDropped
  <1>2. QED
    BY <1>1, StoredStays DEF Bound, Serving

LEMMA DockKeepsStored ==
  ASSUME Tokens, Stored, Dock
  PROVE  Stored'
  <1>a. Types /\ MemoryOfFile /\ JobWaits /\ Asking /\ StoredWhole
    BY DEF Tokens, Stored
  <1>1. CASE DockStarts \/ Bind \/ Read
    <2>1. UNCHANGED <<ask, cred, body, live, torn, stage, token, job>>
      BY <1>1 DEF DockStarts, Bind, Read, store, peers
    <2>2. \/ dpc' = "token"
          \/ dpc = "bind" /\ dpc' \in {"accept", "stopped"}
          \/ dpc = "read" /\ dpc' = "act"
      BY <1>1 DEF DockStarts, Bind, Read
    <2>3. QED
      BY <1>a, <2>1, <2>2, StoredStays DEF Asking, Bound, Serving
  <1>2. ASSUME NEW r \in Peers, DockAccepts(r) PROVE Stored'
    BY <1>a, <1>2, StoredStays DEF DockAccepts, store, peers, Asking, Bound, Serving
  <1>3. CASE Token
    <2>1. UNCHANGED <<ask, cred, body, live, torn, stage>>
      BY <1>3 DEF Token, peers
    <2>2. dpc' \in {"bind", "save"} /\ token' # NoToken
      BY <1>a, <1>3 DEF Token, Types, EnvToken, NoToken
    <2>3. QED
      BY <2>1, <2>2, StoredStays
  <1>4. CASE SaveToken
    <2>1. UNCHANGED <<ask, cred, body, live, torn, stage, token>>
      BY <1>4 DEF SaveToken, peers
    <2>2. dpc = "save" /\ dpc' = "bind"
      BY <1>4 DEF SaveToken
    <2>3. QED
      BY <1>a, <2>1, <2>2, StoredStays DEF Asking
  <1>5. CASE Act
    <2>1. /\ dpc = "act" /\ UNCHANGED <<ask, cred, body, stage, token, job>>
          /\ IF Verdict(ask[job]) = 0 THEN dpc' = "open"
             ELSE dpc' = "reply" /\ status' = Verdict(ask[job])
          /\ IF Verdict(ask[job]) = 204 THEN live' = NoFile ELSE UNCHANGED <<live, torn>>
      BY <1>5 DEF Act, Answer, peers
    <2>2. dpc' = "open" => ask[job].method = "PUT" /\ cred[job] # NoToken
      BY <1>a, <2>1, VerdictRefuses DEF Authed, Asking, Bound, Serving
    <2>3. dpc' = "reply" => status' # 201
      BY <2>1, VerdictIsStatus
    <2>4. dpc' \in {"open", "reply"} /\ dpc \in Bound
      BY <2>1 DEF Bound, Serving
    <2>5. Asking'
      BY <1>a, <2>1, <2>2, <2>4 DEF Asking
    <2>6. Uploads' = Uploads
      BY <2>1 DEF Uploads
    <2>7. StoredWhole'
      BY <1>a, <2>1, <2>3, <2>4, <2>6 DEF StoredWhole
    <2>8. QED
      BY <2>5, <2>7 DEF Stored
  <1>6. CASE PutOpens
    <2>1. /\ dpc = "open" /\ UNCHANGED <<ask, cred, body, stage, token, job>>
          /\ \/ torn' = TRUE /\ dpc' = "write"
             \/ dpc' = "reply" /\ status' = 500 /\ UNCHANGED <<live, torn>>
      BY <1>6 DEF PutOpens, Answer, peers
    <2>2. Asking' /\ Uploads' = Uploads
      BY <1>a, <2>1 DEF Asking, Uploads, Bound, Serving
    <2>3. QED
      BY <1>a, <2>1, <2>2 DEF StoredWhole, Stored
  <1>7. CASE PutWrites
    <2>1. /\ dpc = "write" /\ UNCHANGED <<ask, cred, body, stage, token, job>>
          /\ dpc' = "reply"
          /\ \/ live' \in Arrived(job) /\ torn' = (ask[job].sent # "all")
             \/ torn' = TRUE
      BY <1>7 DEF PutWrites, Answer, peers
    <2>2. ~torn' => live' = body[job]
      BY <2>1 DEF Arrived
    <2>3. Asking' /\ Uploads' = Uploads
      BY <1>a, <2>1 DEF Asking, Uploads, Bound, Serving
    <2>4. job \in Peers /\ ask[job].method = "PUT" /\ cred[job] # NoToken
      BY <1>a, <2>1 DEF JobWaits, Asking, Serving
    <2>5. body[job] \in Uploads
      BY <2>4 DEF Uploads, NoAsk
    <2>6. QED
      BY <2>1, <2>2, <2>3, <2>4, <2>5 DEF StoredWhole, Stored
  <1>8. CASE Reply
    <2>1. /\ dpc = "reply" /\ dpc' \in {"stopped", "accept"}
          /\ UNCHANGED <<ask, cred, body, live, torn, token>>
          /\ stage' = [(IF scene.once THEN AllDropped ELSE stage) EXCEPT
                         ![job] = IF gone[job] THEN "dropped" ELSE "served"]
      BY <1>8 DEF Reply, store
    <2>2. job \in Peers
      BY <1>a, <2>1 DEF JobWaits, Serving
    <2>3. \A r \in Peers : stage'[r] = "new" => stage[r] = "new"
      BY <1>a, <2>1, <2>2 DEF AllDropped, Types
    <2>4. QED
      BY <1>a, <2>1, <2>3, StoredStays DEF Asking, Bound, Serving
  <1>9. QED
    BY <1>1, <1>2, <1>3, <1>4, <1>5, <1>6, <1>7, <1>8 DEF Dock

LEMMA NextStored == Tokens /\ Stored /\ [Next]_vars => Stored'
  BY CommandsKeepStored, OthersKeepStored, DeathKeepsStored, DockKeepsStored
  DEF Next, Pipe, Killed

(* The dock holds a whole upload of a client that knew the token, or no    *)
(* archive, unless the last upload was cut short, its write failed, or the *)
(* dock died over it; a 201 that is about to go to a client that sent      *)
(* everything is for the archive that is stored. (buraaq_dock_run)         *)
THEOREM StoresWholeUploads == Spec => []StoredWhole
  <1>1. Stored => StoredWhole
    BY DEF Stored
  <1>2. QED
    BY InitTokens, NextTokens, InitStored, NextStored, <1>1, PTL DEF Spec

-----------------------------------------------------------------------------
(* What a command runs *)

Entries == [name : {"bin", "pkg"}, of : Int]
Archives == [there : BOOLEAN, magic : BOOLEAN, entries : Seq(Entries)]

\* What becomes of an archive stays one.
LEMMA EntryIsEntry ==
  ASSUME NEW name \in {"bin", "pkg"}, NEW of \in Int
  PROVE  /\ Entry(name, of) \in Entries
         /\ Entry(name, of).name = name /\ Entry(name, of).of = of
  BY DEF Entry, Entries

LEMMA EmptyIsArchive ==
  /\ Empty \in Archives /\ Empty.entries = <<>> /\ Empty.magic = FALSE
  /\ NoFile \in Archives /\ NoFile.entries = <<>> /\ NoFile.magic = FALSE
  BY EmptySeq DEF Empty, NoFile, Archives

LEMMA PackedIsArchive ==
  ASSUME NEW b \in Int
  PROVE  /\ Packed(b, FALSE) \in Archives /\ Packed(b, FALSE).magic
         /\ Packed(b, FALSE).entries = <<Entry("bin", b)>>
  <1>1. Entry("bin", b) \in Entries
    BY EntryIsEntry
  <1>2. <<Entry("bin", b)>> \o <<>> = <<Entry("bin", b)>> /\ <<Entry("bin", b)>> \in Seq(Entries)
    BY <1>1, ConcatEmptySeq
  <1>3. QED
    BY <1>2 DEF Packed, Archives

LEMMA CutsAreArchives ==
  ASSUME NEW f \in Archives, NEW g \in Cuts(f)
  PROVE  g \in Archives
  <1>1. CASE g = Empty
    BY <1>1, EmptyIsArchive
  <1>2. ASSUME NEW n \in 0 .. Len(f.entries) - 1, g = [f EXCEPT !.entries = SubSeq(@, 1, n)]
        PROVE  g \in Archives
    <2>1. f.entries \in Seq(Entries)
      BY DEF Archives
    <2>2. SubSeq(f.entries, 1, n) \in Seq(Entries)
      <3>1. \A i \in 1 .. n : f.entries[i] \in Entries
        BY <2>1, LenProperties, ElementOfSeq
      <3>2. QED
        BY <2>1, <3>1, LenProperties, SubSeqProperties
    <2>3. QED
      BY <1>2, <2>2 DEF Archives
  <1>3. QED
    BY <1>1, <1>2 DEF Cuts

LEMMA AlterationsAreArchives ==
  ASSUME NEW f \in Archives, NEW g \in Alterations(f)
  PROVE  g \in Archives
  <1>1. PICK i \in DOMAIN f.entries : g = [f EXCEPT !.entries[i].of = Altered]
    BY DEF Alterations
  <1>2. f.entries \in Seq(Entries) /\ f.entries[i] \in Entries
    BY ElementOfSeq, LenProperties DEF Archives
  <1>3. [f.entries[i] EXCEPT !.of = Altered] \in Entries
    BY <1>2 DEF Entries, Altered
  <1>4. [f.entries EXCEPT ![i] = [f.entries[i] EXCEPT !.of = Altered]] \in Seq(Entries)
    BY <1>2, <1>3, LenProperties, ExceptSeq
  <1>5. g = [f EXCEPT !.entries = [f.entries EXCEPT ![i] = [f.entries[i] EXCEPT !.of = Altered]]]
    BY <1>1
  <1>6. QED
    BY <1>4, <1>5 DEF Archives

LEMMA MixturesAreArchives ==
  ASSUME NEW f \in Archives, NEW g \in Mixtures(f)
  PROVE  /\ g \in Archives /\ g.magic = f.magic /\ Len(g.entries) = Len(f.entries)
         /\ \A i \in 1 .. Len(f.entries) : g.entries[i].name = f.entries[i].name
  <1>1. PICK k \in DOMAIN f.entries : g = [f EXCEPT !.entries[k].of = Torn]
    BY DEF Mixtures
  <1>2. f.entries \in Seq(Entries) /\ f.entries[k] \in Entries
    BY ElementOfSeq, LenProperties DEF Archives
  <1> DEFINE e == [f.entries[k] EXCEPT !.of = Torn]
             es == [f.entries EXCEPT ![k] = e]
  <1>3. e \in Entries /\ e.name = f.entries[k].name
    BY <1>2 DEF Entries, Torn
  <1>4. es \in Seq(Entries) /\ Len(es) = Len(f.entries)
    BY <1>2, <1>3, LenProperties, ExceptSeq
  <1>5. \A i \in 1 .. Len(f.entries) : es[i].name = f.entries[i].name
    BY <1>2, <1>3, LenProperties
  <1>6. g = [f EXCEPT !.entries = es]
    BY <1>1
  <1> HIDE DEF e, es
  <1>7. QED
    BY <1>4, <1>5, <1>6 DEF Archives

Early == {"new", "pack bin", "pack pkg", "close", "launch"}
Dirs == [bin : Int, pkg : Int, x : BOOLEAN]

HeldEntries == [name : {"bin", "pkg", "none"}, of : Int]

Shapes ==
  /\ file \in Archives /\ dir \in Dirs
  /\ builds \in Nat /\ spoilt \in BOOLEAN
  /\ built \in [Commands -> Nat] /\ at \in [Commands -> Nat] /\ ran \in [Commands -> Int]
  /\ held \in [Commands -> HeldEntries]

\* How far a command is in the archive, and that it built if it had to.
Pace(c) ==
  /\ at[c] >= 1
  /\ cpc[c] \in Early => at[c] = 1
  /\ cpc[c] \in {"open", "write"} => held[c] \in Entries
  /\ Active(c) /\ scene.kind[c] # "launch" => built[c] > 0

Formed == Shapes /\ \A c \in Commands : Pace(c)

\* What becomes of the unpacked files when an entry is opened or written.
LEMMA DirWritten ==
  ASSUME NEW d \in Dirs, NEW n \in {"bin", "pkg"}, NEW v \in Int
  PROVE  /\ [d EXCEPT ![n] = v] \in Dirs /\ [d EXCEPT ![n] = v].x = d.x
         /\ [d EXCEPT ![n] = v].bin = IF n = "bin" THEN v ELSE d.bin
  <1>1. CASE n = "bin"
    BY <1>1 DEF Dirs
  <1>2. CASE n = "pkg"
    BY <1>2 DEF Dirs
  <1>3. QED
    BY <1>1, <1>2

\* Whoever runs without another one beside it is the only one that runs.
Alone(c) == Active(c) /\ c \notin crowd
Crowding == \A c, d \in Commands : Alone(c) /\ Active(d) => c = d

\* A step of a command that goes on, or ends.
LEMMA StepKeepsPace ==
  ASSUME Types, \A d \in Commands : Pace(d), NEW c \in Commands, Active(c), NEW where,
         cpc' = [cpc EXCEPT ![c] = where],
         where # "new", where \in Early => cpc[c] \in Early,
         where \in {"open", "write"} => held[c] \in Entries,
         UNCHANGED <<scene, built, at, held>>
  PROVE  (\A d \in Commands : Pace(d))'
  <1> SUFFICES ASSUME NEW d \in Commands PROVE Pace(d)'
    OBVIOUS
  <1>1. cpc'[d] = IF d = c THEN where ELSE cpc[d]
    BY DEF Types
  <1>2. QED
    BY <1>1 DEF Pace, Active

LEMMA BuildsGo == ASSUME builds \in Nat PROVE builds + 1 \in Nat /\ builds + 1 > 0
  OBVIOUS

\* What a start does to the files and to its command.
LEMMA StartFacts ==
  ASSUME NEW c \in Commands, Start(c)
  PROVE  \E w \in {"launch", "pack bin"} :
           /\ cpc' = [cpc EXCEPT ![c] = w]
           /\ w = "launch" => scene.kind[c] = "launch" /\ UNCHANGED <<builds, built, file>>
           /\ w = "pack bin" => /\ builds' = builds + 1 /\ file' = Empty
                                /\ built' = [built EXCEPT ![c] = builds + 1]
  BY DEF Start, Goes

LEMMA StartKeepsFormed ==
  ASSUME Types, Formed, NEW c \in Commands, Start(c)
  PROVE  Formed'
  <1>a. Shapes /\ \A d \in Commands : Pace(d)
    BY DEF Formed
  <1>1. PICK w \in {"launch", "pack bin"} :
          /\ cpc' = [cpc EXCEPT ![c] = w]
          /\ w = "launch" => scene.kind[c] = "launch" /\ UNCHANGED <<builds, built, file>>
          /\ w = "pack bin" => /\ builds' = builds + 1 /\ file' = Empty
                               /\ built' = [built EXCEPT ![c] = builds + 1]
    BY StartFacts
  <1>2. UNCHANGED <<scene, dir, at, held, ran, spoilt>> /\ cpc[c] = "new"
    BY DEF Start
  <1>3. file' \in Archives
    BY <1>a, <1>1, EmptyIsArchive DEF Shapes
  <1>4. builds \in Nat /\ builds' \in Nat /\ built' \in [Commands -> Nat]
    <2>1. builds \in Nat /\ built \in [Commands -> Nat]
      BY <1>a DEF Shapes
    <2>2. CASE w = "launch"
      BY <1>1, <2>1, <2>2
    <2>3. CASE w = "pack bin"
      <3>1. builds' = builds + 1 /\ built' = [built EXCEPT ![c] = builds + 1]
        BY <1>1, <2>3
      <3>2. builds + 1 \in Nat
        BY <2>1, BuildsGo
      <3>3. QED
        BY <2>1, <3>1, <3>2
    <2>4. QED
      BY <2>1, <2>2, <2>3
  <1>5. Shapes'
    BY <1>a, <1>2, <1>3, <1>4 DEF Shapes
  <1>6. ASSUME NEW d \in Commands PROVE Pace(d)'
    <2>1. cpc'[d] = IF d = c THEN w ELSE cpc[d]
      BY <1>1 DEF Types
    <2>2. CASE d # c
      <3>1. built'[d] = built[d]
        BY <1>a, <1>1, <2>2 DEF Shapes
      <3>2. QED
        BY <1>a, <1>2, <2>1, <2>2, <3>1 DEF Pace, Active
    <2>3. CASE d = c
      <3>1. scene.kind[c] # "launch" => built'[c] = builds + 1
        BY <1>a, <1>1 DEF Shapes
      <3>2. at'[c] = 1 /\ at'[c] >= 1
        BY <1>a, <1>2 DEF Pace, Early
      <3>3. scene'.kind[c] # "launch" => built'[c] > 0
        <4>1. builds + 1 > 0 /\ scene' = scene
          BY <1>2, <1>4, BuildsGo
        <4>2. QED
          BY <3>1, <4>1
      <3>4. cpc'[c] \notin {"open", "write"}
        BY <2>1, <2>3
      <3>5. QED
        BY <2>3, <3>2, <3>3, <3>4 DEF Pace
    <2>4. QED
      BY <2>2, <2>3
  <1>7. QED
    BY <1>5, <1>6 DEF Formed

\* An entry that is written goes to the end of the file, mixed with what
\* another command writes at the same time.
LEMMA PackFacts ==
  ASSUME Types, Formed, NEW c \in Commands, Pack(c)
  PROVE  /\ \E w \in {"pack pkg", "close"} : cpc' = [cpc EXCEPT ![c] = w]
         /\ UNCHANGED <<scene, builds, dir, shared, built, at, held, ran, spoilt, crowd>>
         /\ built[c] \in Int
         /\ \E a \in Archives :
              /\ Adds(c, a)
              /\ \/ cpc[c] = "pack bin" /\ a = Packed(built[c], FALSE)
                 \/ /\ cpc[c] = "pack pkg" /\ a.magic = file.magic
                    /\ a.entries = Append(file.entries, Entry("pkg", built[c]))
  <1>1. built[c] \in Int /\ file \in Archives
    BY DEF Formed, Shapes
  <1>2. /\ \E w \in {"pack pkg", "close"} : cpc' = [cpc EXCEPT ![c] = w]
        /\ UNCHANGED <<scene, builds, dir, shared, built, at, held, ran, spoilt, crowd>>
    BY DEF Pack, Goes
  <1>3. CASE cpc[c] = "pack bin" /\ Adds(c, Packed(built[c], FALSE))
    <2>1. Packed(built[c], FALSE) \in Archives
      BY <1>1, PackedIsArchive
    <2>2. QED
      BY <1>1, <1>2, <1>3, <2>1
  <1>4. CASE /\ cpc[c] = "pack pkg"
             /\ Adds(c, [file EXCEPT !.entries = Append(@, Entry("pkg", built[c]))])
    <2> DEFINE a == [file EXCEPT !.entries = Append(@, Entry("pkg", built[c]))]
    <2>1. Append(file.entries, Entry("pkg", built[c])) \in Seq(Entries)
      BY <1>1, EntryIsEntry, AppendProperties DEF Archives
    <2>2. /\ a \in Archives /\ a.magic = file.magic
          /\ a.entries = Append(file.entries, Entry("pkg", built[c]))
      BY <1>1, <2>1 DEF Archives
    <2>3. Adds(c, a)
      BY <1>4
    <2> HIDE DEF a
    <2>4. QED
      BY <1>1, <1>2, <1>4, <2>2, <2>3
  <1>5. QED
    BY <1>3, <1>4 DEF Pack

LEMMA AddsArchives ==
  ASSUME NEW a \in Archives, NEW c, Adds(c, a)
  PROVE  /\ file' \in Archives /\ file'.magic = a.magic /\ Len(file'.entries) = Len(a.entries)
         /\ \A i \in 1 .. Len(a.entries) : file'.entries[i].name = a.entries[i].name
         /\ <<c, "file">> \notin shared => file' = a
  BY MixturesAreArchives DEF Adds

\* An entry that is read is whole but in an archive that is being written,
\* and the next one is read after it.
LEMMA ReadFacts ==
  ASSUME Types, Formed, NEW c \in Commands, Reads(c)
  PROVE  /\ cpc[c] = "read" /\ at[c] \in 1 .. Len(file.entries)
         /\ held' \in [Commands -> HeldEntries] /\ held'[c] \in Entries
         /\ <<c, "file">> \notin shared => held'[c] = file.entries[at[c]]
         /\ at' = [at EXCEPT ![c] = at[c] + 1]
         /\ cpc' = [cpc EXCEPT ![c] = "open"]
         /\ UNCHANGED <<scene, builds, file, dir, shared, built, ran, spoilt, crowd>>
         /\ at'[c] = at[c] + 1
         /\ \A d \in Commands \ {c} : held'[d] = held[d] /\ at'[d] = at[d]
  <1>1. at[c] \in Nat /\ at[c] >= 1 /\ file.entries \in Seq(Entries)
    BY DEF Formed, Shapes, Archives, Pace
  <1>2. cpc[c] = "read" /\ at[c] \in 1 .. Len(file.entries)
    BY <1>1, LenProperties DEF Reads
  <1>3. file.entries[at[c]] \in Entries
    BY <1>1, <1>2, ElementOfSeq
  <1>4. /\ at' = [at EXCEPT ![c] = at[c] + 1]
        /\ cpc' = [cpc EXCEPT ![c] = "open"]
        /\ UNCHANGED <<scene, builds, file, dir, shared, built, ran, spoilt, crowd>>
    BY DEF Reads, Goes, machine
  <1>5. PICK e : /\ held' = [held EXCEPT ![c] = e]
                 /\ \/ e = file.entries[at[c]]
                    \/ /\ <<c, "file">> \in shared
                       /\ e = Entry(file.entries[at[c]].name, Torn)
    BY DEF Reads
  <1>6. e \in Entries
    <2>1. file.entries[at[c]].name \in {"bin", "pkg"} /\ Torn \in Int
      BY <1>3 DEF Entries, Torn
    <2>2. QED
      BY <1>3, <1>5, <2>1, EntryIsEntry
  <1>7. e \in HeldEntries
    BY <1>6 DEF HeldEntries, Entries
  <1>8. held \in [Commands -> HeldEntries] /\ DOMAIN at = Commands
    BY DEF Formed, Shapes
  <1>9. QED
    BY <1>2, <1>4, <1>5, <1>6, <1>7, <1>8

LEMMA ReadsKeepsFormed ==
  ASSUME Types, Formed, NEW c \in Commands, Reads(c)
  PROVE  Formed'
  <1>a. Shapes /\ \A d \in Commands : Pace(d)
    BY DEF Formed
  <1>1. /\ cpc[c] = "read" /\ at[c] \in 1 .. Len(file.entries)
        /\ held' \in [Commands -> HeldEntries] /\ held'[c] \in Entries
        /\ at' = [at EXCEPT ![c] = at[c] + 1]
        /\ cpc' = [cpc EXCEPT ![c] = "open"]
        /\ UNCHANGED <<scene, builds, file, dir, built, ran, spoilt, crowd>>
        /\ at'[c] = at[c] + 1
        /\ \A d \in Commands \ {c} : held'[d] = held[d] /\ at'[d] = at[d]
    BY ReadFacts
  <1>3. at' \in [Commands -> Nat]
    BY <1>a, <1>1 DEF Shapes
  <1>4. Shapes'
    BY <1>a, <1>1, <1>3 DEF Shapes
  <1>5. ASSUME NEW d \in Commands PROVE Pace(d)'
    <2>1. cpc'[d] = IF d = c THEN "open" ELSE cpc[d]
      BY <1>1 DEF Types
    <2>2. Pace(d)
      BY <1>a
    <2>3. CASE d # c
      BY <1>1, <2>1, <2>2, <2>3 DEF Pace, Active
    <2>4. CASE d = c
      <3>1. at'[c] >= 1
        BY <1>1, LenProperties
      <3>2. scene'.kind[c] # "launch" => built'[c] > 0
        BY <1>1, <2>2, <2>4 DEF Pace, Active
      <3>3. cpc'[c] = "open" /\ held'[c] \in Entries
        BY <1>1, <2>1, <2>4
      <3>4. QED
        BY <2>4, <3>1, <3>2, <3>3 DEF Pace, Early
    <2>5. QED
      BY <2>3, <2>4
  <1>6. QED
    BY <1>4, <1>5 DEF Formed

\* The unpacked files when an entry is opened or written.
LEMMA UnpackFacts ==
  ASSUME Types, Formed, NEW c \in Commands, Opens(c) \/ Writes(c)
  PROVE  /\ cpc[c] \in {"open", "write"} /\ held[c] \in Entries /\ dir' \in Dirs
         /\ UNCHANGED <<scene, builds, file, built, at, held, ran, crowd>>
         /\ \E w \in {"read", "write"} : cpc' = [cpc EXCEPT ![c] = w]
         /\ Opens(c) =>
              /\ Busy(c) => dir' = dir /\ cpc' = [cpc EXCEPT ![c] = "read"]
              /\ ~Busy(c) => /\ cpc' = [cpc EXCEPT ![c] = "write"]
                             /\ dir'.x = (dir.x \/ (held[c].name = "bin" /\ ~scene.posix))
                             /\ dir'.bin = IF held[c].name = "bin" THEN Torn ELSE dir.bin
         /\ Writes(c) =>
              /\ dir'.x = dir.x /\ cpc' = [cpc EXCEPT ![c] = "read"]
              /\ ~spoilt' => ~spoilt
              /\ ~spoilt' /\ <<c, held[c].name>> \notin shared =>
                   dir'.bin = IF held[c].name = "bin" THEN held[c].of ELSE dir.bin
  <1>1. /\ cpc[c] \in {"open", "write"} /\ held[c] \in Entries
        /\ UNCHANGED <<scene, builds, file, built, at, held, ran, crowd>>
        /\ \E w \in {"read", "write"} : cpc' = [cpc EXCEPT ![c] = w]
    BY DEF Opens, Writes, Goes, Formed, Pace
  <1>2. /\ dir \in Dirs /\ dir.x \in BOOLEAN /\ Torn \in Int
        /\ held[c].name \in {"bin", "pkg"} /\ held[c].of \in Int
    BY <1>1 DEF Formed, Shapes, Dirs, Entries, Torn
  <1>3. CASE Opens(c)
    <2>a. ~Writes(c)
      BY <1>3 DEF Opens, Writes
    <2>1. CASE Busy(c)
      <3>1. dir' = dir /\ cpc' = [cpc EXCEPT ![c] = "read"]
        BY <1>3, <2>1 DEF Opens, Goes
      <3>2. QED
        BY <1>1, <1>2, <2>a, <2>1, <3>1
    <2>2. CASE ~Busy(c)
      <3>1. cpc' = [cpc EXCEPT ![c] = "write"]
        BY <1>3, <2>2 DEF Opens, Goes
      <3>2. PICK b \in BOOLEAN : b = (dir.x \/ (held[c].name = "bin" /\ ~scene.posix))
        OBVIOUS
      <3>3. dir' = [dir EXCEPT ![held[c].name] = Torn, !.x = b]
        BY <1>3, <2>2, <3>2 DEF Opens
      <3>4. /\ dir' \in Dirs /\ dir'.x = b
            /\ dir'.bin = IF held[c].name = "bin" THEN Torn ELSE dir.bin
        <4>1. PICK n \in {"bin", "pkg"}, v \in Int : n = held[c].name /\ v = Torn
          BY <1>2
        <4>2. dir' = [dir EXCEPT ![n] = v, !.x = b]
          BY <3>3, <4>1
        <4>3. dir \in Dirs
          BY <1>2
        <4> DEFINE f == [dir EXCEPT ![n] = v]
        <4>4. dir' = [f EXCEPT !.x = b]
          BY <4>2, <4>3 DEF Dirs
        <4>5. f \in Dirs /\ f.bin = IF n = "bin" THEN v ELSE dir.bin
          BY <4>3, DirWritten
        <4> HIDE DEF f
        <4>6. dir' \in Dirs /\ dir'.x = b /\ dir'.bin = f.bin
          BY <4>4, <4>5 DEF Dirs
        <4>7. QED
          BY <4>1, <4>5, <4>6
      <3>5. QED
        BY <1>1, <2>a, <2>2, <3>1, <3>2, <3>4
    <2>3. QED
      BY <2>1, <2>2
  <1>4. CASE Writes(c)
    <2>1. ~Opens(c) /\ cpc' = [cpc EXCEPT ![c] = "read"]
      BY <1>4 DEF Opens, Writes, Goes
    <2>2. CASE dir' = [dir EXCEPT ![held[c].name] = held[c].of] /\ UNCHANGED spoilt
      <3>1. /\ dir' \in Dirs /\ dir'.x = dir.x
            /\ dir'.bin = IF held[c].name = "bin" THEN held[c].of ELSE dir.bin
        BY <1>2, <2>2, DirWritten
      <3>2. QED
        BY <1>1, <2>1, <2>2, <3>1
    <2>3. CASE /\ dir' \in {dir, [dir EXCEPT ![held[c].name] = Torn]}
               /\ spoilt' \/ (UNCHANGED spoilt /\ <<c, held[c].name>> \in shared)
      <3>1. dir' \in Dirs /\ dir'.x = dir.x
        <4>1. CASE dir' = dir
          BY <1>2, <4>1
        <4>2. CASE dir' = [dir EXCEPT ![held[c].name] = Torn]
          BY <1>2, <4>2, DirWritten
        <4>3. QED
          BY <2>3, <4>1, <4>2
      <3>2. ~spoilt' => ~spoilt /\ <<c, held[c].name>> \in shared
        BY <2>3
      <3>3. QED
        BY <1>1, <2>1, <3>1, <3>2
    <2>4. QED
      BY <1>4, <2>2, <2>3 DEF Writes
  <1>5. QED
    BY <1>3, <1>4

LEMMA CommandsKeepFormed ==
  ASSUME Tokens, Formed, NEW c \in Commands, Command(c)
  PROVE  Formed'
  <1>a. /\ Types /\ CommandsWait /\ file \in Archives /\ dir \in Dirs
        /\ Shapes /\ \A d \in Commands : Pace(d)
    BY DEF Tokens, Formed, Shapes
  <1>1. CASE Start(c)
    BY <1>a, <1>1, StartKeepsFormed
  <1>2. CASE Pack(c)
    <2>1. PICK w \in {"pack pkg", "close"} : cpc' = [cpc EXCEPT ![c] = w]
      BY <1>a, <1>2, PackFacts
    <2>2. /\ UNCHANGED <<scene, builds, dir, built, at, held, ran, spoilt>>
          /\ file' \in Archives /\ cpc[c] \in {"pack bin", "pack pkg"}
      BY <1>a, <1>2, PackFacts, AddsArchives
    <2>3. Shapes'
      BY <1>a, <2>2 DEF Shapes
    <2>4. (\A d \in Commands : Pace(d))'
      BY <1>a, <2>1, <2>2, StepKeepsPace DEF Active, Early
    <2>5. QED
      BY <2>3, <2>4 DEF Formed
  <1>3. CASE PackFails(c) \/ LaunchOpens(c) \/ Exits(c) \/ Sends(c) \/ Hears(c) \/ Execute(c)
    <2>1. UNCHANGED <<scene, builds, built, at, held, file, dir>> /\ Active(c)
      BY <1>3 DEF PackFails, LaunchOpens, Exits, Sends, Hears, Execute, machine, Active
    <2>2. PICK w \in {"read", "ended", "sent", "running"} : cpc' = [cpc EXCEPT ![c] = w]
      BY <1>3 DEF PackFails, LaunchOpens, Exits, Sends, Hears, Execute, Goes, End
    <2>3. spoilt' \in BOOLEAN
      BY <1>a, <1>3 DEF PackFails, LaunchOpens, Exits, Sends, Hears, Execute, Shapes
    <2>4. ran' \in [Commands -> Int]
      <3>1. dir.bin \in Int
        BY <1>a DEF Dirs
      <3>2. UNCHANGED ran \/ ran' = [ran EXCEPT ![c] = dir.bin]
        BY <1>3 DEF PackFails, LaunchOpens, Exits, Sends, Hears, Execute
      <3>3. QED
        BY <1>a, <3>1, <3>2 DEF Shapes
    <2>5. Shapes'
      BY <1>a, <2>1, <2>3, <2>4 DEF Shapes
    <2>6. (\A d \in Commands : Pace(d))'
      BY <1>a, <2>1, <2>2, StepKeepsPace DEF Early
    <2>7. QED
      BY <2>5, <2>6 DEF Formed
  <1>4. CASE Close(c)
    <2>1. UNCHANGED <<scene, builds, built, at, held, ran, dir>> /\ cpc[c] = "close"
      BY <1>4 DEF Close
    <2>2. file' \in Archives /\ spoilt' \in BOOLEAN
      BY <1>a, <1>4, CutsAreArchives DEF Close, Shapes
    <2>3. scene.kind[c] \in {"pack", "local", "host"}
      BY <1>a, <2>1 DEF CommandsWait, Packing
    <2>4. PICK w \in {"launch", "put", "ended"} : cpc' = [cpc EXCEPT ![c] = w]
      BY <1>4, <2>3 DEF Close, Goes, End
    <2>5. Shapes'
      BY <1>a, <2>1, <2>2 DEF Shapes
    <2>6. (\A d \in Commands : Pace(d))'
      BY <1>a, <2>1, <2>4, StepKeepsPace DEF Early, Active
    <2>7. QED
      BY <2>5, <2>6 DEF Formed
  <1>5. CASE Reads(c)
    BY <1>a, <1>5, ReadsKeepsFormed
  <1>6. CASE Opens(c) \/ Writes(c)
    <2>1. /\ cpc[c] \in {"open", "write"} /\ held[c] \in Entries /\ dir' \in Dirs
          /\ UNCHANGED <<scene, builds, file, built, at, held, ran>>
      BY <1>a, <1>6, UnpackFacts
    <2>2. PICK w \in {"read", "write"} : cpc' = [cpc EXCEPT ![c] = w]
      BY <1>a, <1>6, UnpackFacts
    <2>3. spoilt' \in BOOLEAN
      BY <1>a, <1>6 DEF Opens, Writes, Shapes
    <2>4. Shapes'
      BY <1>a, <2>1, <2>3 DEF Shapes
    <2>5. (\A d \in Commands : Pace(d))'
      BY <1>a, <2>1, <2>2, StepKeepsPace DEF Active, Early
    <2>6. QED
      BY <2>4, <2>5 DEF Formed
  <1>7. QED
    BY <1>1, <1>2, <1>3, <1>4, <1>5, <1>6 DEF Command

LEMMA NoEntries == DOMAIN <<>> = {}
  <1>1. <<>> \in Seq(Int) /\ Len(<<>>) = 0
    BY EmptySeq
  <1>2. DOMAIN <<>> = 1 .. Len(<<>>)
    BY <1>1, LenProperties
  <1>3. QED
    BY <1>1, <1>2

\* On POSIX a file is executable only if somebody made it so.
Executable ==
  /\ scene.posix => dir.x = scene.runnable
  /\ \A c \in Commands : cpc[c] = "running" => dir.x

\* The binary is the first entry of an archive.
Sound ==
  /\ file.magic => file.entries # <<>>
  /\ \A i \in DOMAIN file.entries :
       file.magic => (file.entries[i].name = "bin" <=> i = 1)

Unspoilt == ~spoilt => Sound

\* Nobody shares a file but those who have run beside another.
Apart == \A c \in Commands : \A n \in {"file", "bin", "pkg"} : <<c, n>> \in shared => c \in crowd

LEMMA ExecuteFacts ==
  ASSUME Formed, NEW c \in Commands, Execute(c)
  PROVE  /\ cpc[c] = "read" /\ at[c] > Len(file.entries)
         /\ UNCHANGED <<scene, machine, built, at, held, crowd, spoilt>>
         /\ \/ cpc' = [cpc EXCEPT ![c] = "ended"] /\ UNCHANGED ran
            \/ /\ cpc' = [cpc EXCEPT ![c] = "running"] /\ dir.x
               /\ ran' = [ran EXCEPT ![c] = dir.bin]
  BY DEF Execute, End, Goes

\* Steps of a command that change neither the files nor what it knows of them.
Plain(c) == PackFails(c) \/ LaunchOpens(c) \/ Exits(c) \/ Sends(c) \/ Hears(c)

LEMMA PlainFacts ==
  ASSUME NEW c \in Commands, Plain(c)
  PROVE  /\ UNCHANGED <<scene, builds, file, dir, built, at, held, ran, crowd>> /\ Active(c)
         /\ cpc[c] \notin {"open", "write"} /\ spoilt' \in {spoilt, TRUE}
         /\ \/ cpc' = [cpc EXCEPT ![c] = "ended"]
            \/ cpc' = [cpc EXCEPT ![c] = "sent"]
            \/ cpc' = [cpc EXCEPT ![c] = "read"] /\ cpc[c] = "launch" /\ file.magic
  BY DEF Plain, PackFails, LaunchOpens, Exits, Sends, Hears, Goes, End, machine, Active

LEMMA CloseFacts ==
  ASSUME Types, CommandsWait, Formed, NEW c \in Commands, Close(c)
  PROVE  /\ cpc[c] = "close" /\ UNCHANGED <<scene, builds, built, at, held, ran, dir, crowd>>
         /\ spoilt' \/ UNCHANGED <<file, spoilt>>
         /\ \/ cpc' = [cpc EXCEPT ![c] = "ended"]
            \/ cpc' = [cpc EXCEPT ![c] = "put"]
            \/ cpc' = [cpc EXCEPT ![c] = "launch"]
  <1>1. cpc[c] = "close" /\ scene.kind[c] \in {"pack", "local", "host"}
    BY DEF Close, CommandsWait, Packing
  <1>2. QED
    BY <1>1 DEF Close, Goes, End

LEMMA ExecutableKept ==
  ASSUME Types, CommandsWait, Formed, Executable, NEW c \in Commands, Command(c)
  PROVE  Executable'
  <1>1. scene' = scene /\ (dir.x => dir'.x) /\ (scene.posix => dir'.x = dir.x)
    <2>1. CASE Opens(c) \/ Writes(c)
      <3>1. scene' = scene
        BY <2>1, UnpackFacts
      <3>2. CASE Writes(c)
        BY <3>1, <3>2, UnpackFacts
      <3>3. CASE Opens(c) /\ Busy(c)
        BY <3>1, <3>3, UnpackFacts
      <3>4. CASE Opens(c) /\ ~Busy(c)
        <4>1. dir'.x = (dir.x \/ (held[c].name = "bin" /\ ~scene.posix))
          BY <3>4, UnpackFacts
        <4>2. dir.x \in BOOLEAN
          BY DEF Formed, Shapes, Dirs
        <4>3. QED
          BY <3>1, <4>1, <4>2
      <3>5. QED
        BY <2>1, <3>2, <3>3, <3>4
    <2>2. CASE ~(Opens(c) \/ Writes(c))
      <3>1. UNCHANGED <<scene, dir>>
        BY <2>2 DEF Command, Start, Pack, PackFails, Close, LaunchOpens, Reads, Execute, Exits,
                    Sends, Hears, machine
      <3>2. QED
        BY <3>1
    <2>3. QED
      BY <2>1, <2>2
  <1>2. ASSUME NEW d \in Commands, cpc'[d] = "running" PROVE dir.x
    <2>1. CASE cpc[d] = "running"
      BY <2>1 DEF Executable
    <2>2. CASE cpc[d] # "running"
      <3>1. PICK w : cpc' = [cpc EXCEPT ![c] = w] /\ (w = "running" => dir.x)
        <4>1. CASE Start(c) \/ Pack(c) \/ Reads(c) \/ Opens(c) \/ Writes(c)
          BY <4>1 DEF Start, Pack, Reads, Opens, Writes, Goes
        <4>2. CASE Plain(c)
          <5>1. \E w \in {"ended", "sent", "read"} : cpc' = [cpc EXCEPT ![c] = w]
            BY <4>2, PlainFacts
          <5>2. QED
            BY <5>1
        <4>3. CASE Close(c)
          BY <4>3, CloseFacts
        <4>4. CASE Execute(c)
          BY <4>4, ExecuteFacts
        <4>5. QED
          BY <4>1, <4>2, <4>3, <4>4 DEF Command, Plain
      <3>2. d = c /\ w = "running"
        BY <1>2, <2>2, <3>1 DEF Types
      <3>3. QED
        BY <3>1, <3>2
    <2>3. QED
      BY <2>1, <2>2
  <1>3. QED
    BY <1>1, <1>2 DEF Executable

\* Packing keeps the archive sound, and where nobody else writes it its first
\* entry is the build's.
LEMMA PackSound ==
  ASSUME Types, Formed, CommandsWait, Sound, NEW c \in Commands, Pack(c)
  PROVE  /\ Sound'
         /\ <<c, "file">> \notin shared =>
              /\ cpc[c] = "pack bin" => file'.magic /\ file'.entries[1].of = built[c]
              /\ cpc[c] = "pack pkg" /\ file.magic =>
                   file'.magic /\ file'.entries[1] = file.entries[1]
  <1>1. PICK a \in Archives :
          /\ Adds(c, a)
          /\ \/ cpc[c] = "pack bin" /\ a = Packed(built[c], FALSE)
             \/ /\ cpc[c] = "pack pkg" /\ a.magic = file.magic
                /\ a.entries = Append(file.entries, Entry("pkg", built[c]))
    BY PackFacts
  <1>2. /\ file' \in Archives /\ file'.magic = a.magic /\ Len(file'.entries) = Len(a.entries)
        /\ \A i \in 1 .. Len(a.entries) : file'.entries[i].name = a.entries[i].name
        /\ <<c, "file">> \notin shared => file' = a
    BY <1>1, AddsArchives
  <1>3. /\ a.entries \in Seq(Entries) /\ Len(a.entries) \in Nat
        /\ DOMAIN file'.entries = 1 .. Len(a.entries)
        /\ Len(a.entries) # 0 => file'.entries # <<>>
    <2>1. a.entries \in Seq(Entries) /\ file'.entries \in Seq(Entries)
      BY <1>2 DEF Archives
    <2>2. QED
      BY <1>2, <2>1, LenProperties, EmptySeq
  <1>4. built[c] \in Int
    BY PackFacts
  <1>5. CASE cpc[c] = "pack bin"
    <2>1. a.magic /\ a.entries = <<Entry("bin", built[c])>>
      BY <1>1, <1>4, <1>5, PackedIsArchive
    <2>2. /\ a.entries[1].name = "bin" /\ a.entries[1].of = built[c] /\ Len(a.entries) = 1
      BY <1>4, <2>1, EntryIsEntry
    <2>3. Sound'
      BY <1>2, <1>3, <2>2 DEF Sound
    <2>4. QED
      BY <1>2, <1>5, <2>1, <2>2, <2>3
  <1>6. CASE cpc[c] = "pack pkg"
    <2> DEFINE e == Entry("pkg", built[c])
    <2>1. /\ a.magic = file.magic /\ a.entries = Append(file.entries, e)
          /\ e \in Entries /\ e.name = "pkg" /\ file.entries \in Seq(Entries)
      BY <1>1, <1>4, <1>6, EntryIsEntry DEF Formed, Shapes, Archives
    <2> HIDE DEF e
    <2>2. /\ Len(file.entries) \in Nat /\ DOMAIN file.entries = 1 .. Len(file.entries)
          /\ Len(a.entries) = Len(file.entries) + 1
          /\ \A i \in 1 .. Len(file.entries) : a.entries[i] = file.entries[i]
          /\ a.entries[Len(file.entries) + 1] = e
      BY <2>1, LenProperties, AppendProperties
    <2>3. file.magic => Len(file.entries) # 0
      BY <2>1, EmptySeq DEF Sound
    <2>4. ASSUME NEW i \in 1 .. Len(a.entries), file.magic
          PROVE  a.entries[i].name = "bin" <=> i = 1
      <3>1. CASE i \in 1 .. Len(file.entries)
        BY <2>2, <2>4, <3>1 DEF Sound
      <3>2. CASE i = Len(file.entries) + 1
        BY <2>1, <2>2, <2>3, <2>4, <3>2
      <3>3. QED
        BY <2>2, <3>1, <3>2
    <2>5. Sound'
      <3>1. file'.entries # <<>>
        BY <1>3, <2>2
      <3>2. QED
        BY <1>2, <1>3, <2>1, <2>4, <3>1 DEF Sound
    <2>6. file.magic => a.magic /\ a.entries[1] = file.entries[1]
      BY <2>1, <2>2, <2>3
    <2>7. QED
      BY <1>2, <1>6, <2>5, <2>6
  <1>7. QED
    BY <1>1, <1>5, <1>6

LEMMA UnspoiltKept ==
  ASSUME Types, CommandsWait, Formed, Unspoilt, NEW c \in Commands, Command(c)
  PROVE  Unspoilt'
  <1> SUFFICES ASSUME ~spoilt' PROVE Sound'
    BY DEF Unspoilt
  <1>1. CASE Start(c)
    <2>1. (file' = Empty \/ file' = file) /\ UNCHANGED spoilt
      BY <1>1, StartFacts DEF Start
    <2>2. CASE file' = Empty
      <3>1. file'.entries = <<>> /\ file'.magic = FALSE
        BY <2>2, EmptyIsArchive
      <3>2. DOMAIN <<>> = {}
        BY NoEntries
      <3>3. QED
        BY <3>1, <3>2 DEF Sound
    <2>3. CASE file' = file
      BY <2>1, <2>3 DEF Unspoilt, Sound
    <2>4. QED
      BY <2>1, <2>2, <2>3
  <1>2. CASE Pack(c)
    <2>1. ~spoilt
      BY <1>2, PackFacts
    <2>2. QED
      BY <1>2, <2>1, PackSound DEF Unspoilt
  <1>3. UNCHANGED file /\ ~spoilt => Sound'
    BY DEF Unspoilt, Sound
  <1>4. CASE Plain(c)
    <2>1. spoilt \in BOOLEAN
      BY DEF Formed, Shapes
    <2>2. UNCHANGED file /\ ~spoilt
      BY <1>4, <2>1, PlainFacts
    <2>3. QED
      BY <1>3, <2>2
  <1>5. CASE Close(c)
    BY <1>3, <1>5, CloseFacts
  <1>6. CASE Reads(c)
    BY <1>3, <1>6, ReadFacts
  <1>7. CASE Opens(c)
    BY <1>3, <1>7 DEF Opens
  <1>8. CASE Writes(c)
    <2>1. UNCHANGED file /\ (~spoilt' => ~spoilt)
      BY <1>8, UnpackFacts
    <2>2. QED
      BY <1>3, <2>1
  <1>9. CASE Execute(c)
    BY <1>3, <1>9, ExecuteFacts DEF machine
  <1>10. QED
    BY <1>1, <1>2, <1>4, <1>5, <1>6, <1>7, <1>8, <1>9 DEF Command, Plain

\* Whoever has a file open is at work.
LEMMA HoldersWork ==
  ASSUME NEW n
  PROVE  /\ \A d \in Writers(n) : d \in Commands /\ Active(d)
         /\ \A d \in Holders(n) : d \in Commands /\ Active(d)
  <1>1. \A d \in Writers(n) : d \in Commands /\ Active(d)
    <2>1. CASE n = "file"
      BY <2>1 DEF Writers, Active
    <2>2. CASE n # "file"
      BY <2>2 DEF Writers, Active
    <2>3. QED
      BY <2>1, <2>2
  <1>2. \A d \in Holders(n) : d \in Commands /\ Active(d)
    BY <1>1 DEF Holders, Active
  <1>3. QED
    BY <1>1, <1>2

\* A file that a command opens is shared only with those beside it.
LEMMA SharesApart ==
  ASSUME Apart, NEW c \in Commands, NEW n \in {"file", "bin", "pkg"}, NEW hit,
         Shares(c, n, hit), crowd \subseteq crowd',
         \A d \in (hit \ {c}) : d \in crowd',
         Writers(n) \ {c} # {} => c \in crowd'
  PROVE  Apart'
  <1> SUFFICES ASSUME NEW d \in Commands, NEW m \in {"file", "bin", "pkg"}, <<d, m>> \in shared'
      PROVE  d \in crowd'
    BY DEF Apart
  <1>1. CASE <<d, m>> \in shared
    BY <1>1 DEF Apart
  <1>2. CASE <<d, m>> \notin shared
    <2>1. PICK e \in (hit \ {c}) \cup IF Writers(n) \ {c} = {} THEN {} ELSE {c} :
            <<d, m>> = <<e, n>>
      BY <1>2 DEF Shares
    <2>2. QED
      BY <2>1
  <1>3. QED
    BY <1>1, <1>2

LEMMA ApartKept ==
  ASSUME Types, Formed, Crowding, Apart, NEW c \in Commands, Command(c)
  PROVE  Apart'
  <1>a. ASSUME Active(c)
        PROVE  /\ \A n : \A d \in Holders(n) \ {c} : d \in crowd
               /\ \A n : Writers(n) \ {c} # {} => c \in crowd
    <2>1. ASSUME NEW d \in Commands, Active(d), d # c PROVE d \in crowd /\ c \in crowd
      BY <1>a, <2>1 DEF Crowding, Alone
    <2>2. QED
      BY <2>1, HoldersWork
  <1>1. CASE Start(c)
    <2>1. crowd' = IF Others(c) = {} THEN crowd ELSE crowd \cup {c} \cup Others(c)
      BY <1>1 DEF Start, Join
    <2>2. /\ \A d \in Holders("file") \ {c} : d \in Others(c)
          /\ \A d \in Writers("file") \ {c} : d \in Others(c)
      BY HoldersWork DEF Others
    <2>3. CASE UNCHANGED shared
      BY <2>1, <2>3 DEF Apart
    <2>4. CASE Shares(c, "file", Holders("file"))
      <3>1. crowd \subseteq crowd' /\ \A d \in Holders("file") \ {c} : d \in crowd'
        BY <2>1, <2>2
      <3>2. Writers("file") \ {c} # {} => c \in crowd'
        BY <2>1, <2>2
      <3>3. QED
        BY <2>4, <3>1, <3>2, SharesApart
    <2>5. QED
      BY <1>1, <2>3, <2>4 DEF Start
  <1>2. CASE LaunchOpens(c)
    <2>1. Active(c) /\ UNCHANGED crowd /\ (UNCHANGED shared \/ Shares(c, "file", {}))
      BY <1>2 DEF LaunchOpens, Active
    <2>2. CASE UNCHANGED shared
      BY <2>1, <2>2 DEF Apart
    <2>3. CASE Shares(c, "file", {})
      <3>1. Writers("file") \ {c} # {} => c \in crowd'
        BY <1>a, <2>1
      <3>2. QED
        BY <2>1, <2>3, <3>1, SharesApart
    <2>4. QED
      BY <2>1, <2>2, <2>3
  <1>3. CASE Opens(c)
    <2>1. /\ Active(c) /\ UNCHANGED crowd
          /\ UNCHANGED shared \/ Shares(c, held[c].name, Holders(held[c].name))
      BY <1>3 DEF Opens, Active
    <2>2. CASE UNCHANGED shared
      BY <2>1, <2>2 DEF Apart
    <2>3. CASE Shares(c, held[c].name, Holders(held[c].name))
      <3>1. held[c].name \in {"bin", "pkg"}
        BY <1>3, UnpackFacts DEF Entries
      <3>2. PICK n \in {"file", "bin", "pkg"} : n = held[c].name
        BY <3>1
      <3>3. /\ \A d \in Holders(n) \ {c} : d \in crowd'
            /\ Writers(n) \ {c} # {} => c \in crowd'
        BY <1>a, <2>1
      <3>4. QED
        BY <2>1, <2>3, <3>2, <3>3, SharesApart
    <2>4. QED
      BY <2>1, <2>2, <2>3
  <1>4. CASE ~(Start(c) \/ LaunchOpens(c) \/ Opens(c))
    <2>1. UNCHANGED <<shared, crowd>>
      BY <1>4 DEF Command, Pack, PackFails, Close, Reads, Writes, Execute, Exits, Sends,
                  Hears, machine
    <2>2. QED
      BY <2>1 DEF Apart
  <1>5. QED
    BY <1>1, <1>2, <1>3, <1>4

\* A command that starts beside others is not alone, nor are they.
LEMMA StartAlone ==
  ASSUME Types, Crowding, NEW c \in Commands, Start(c)
  PROVE  Crowding' /\ \A d \in Commands : Alone(d)' => d = c
  <1>1. cpc[c] = "new" /\ crowd' = IF Others(c) = {} THEN crowd ELSE crowd \cup {c} \cup Others(c)
    BY DEF Start, Join
  <1>2. \E w \in {"launch", "pack bin"} : cpc' = [cpc EXCEPT ![c] = w]
    BY StartFacts
  <1>3. \A d \in Commands \ {c} : cpc'[d] = cpc[d]
    BY <1>2 DEF Types
  <1>4. ASSUME NEW d \in Commands, Alone(d)' PROVE d = c
    BY <1>1, <1>3, <1>4 DEF Alone, Active, Others
  <1>5. ASSUME NEW d \in Commands, NEW e \in Commands, Alone(d)', Active(e)' PROVE d = e
    <2>1. d = c
      BY <1>4, <1>5
    <2>2. e # c => e \in Others(c)
      BY <1>3, <1>5 DEF Others, Active
    <2>3. QED
      BY <1>1, <1>5, <2>1, <2>2 DEF Alone
  <1>6. QED
    BY <1>4, <1>5 DEF Crowding

\* Beside a command that is alone no other one steps.
LEMMA ActorAlone ==
  ASSUME Types, Crowding, NEW c \in Commands, Active(c), crowd' = crowd, NEW w,
         cpc' = [cpc EXCEPT ![c] = w]
  PROVE  Crowding' /\ \A d \in Commands : Alone(d)' => d = c /\ Alone(c) /\ cpc'[c] = w
  <1>1. \A d \in Commands : cpc'[d] = IF d = c THEN w ELSE cpc[d]
    BY DEF Types
  <1>2. ASSUME NEW d \in Commands, Alone(d)' PROVE d = c /\ Alone(c)
    BY <1>1, <1>2 DEF Alone, Active, Crowding
  <1>3. ASSUME NEW d \in Commands, NEW e \in Commands, Alone(d)', Active(e)' PROVE d = e
    BY <1>1, <1>2, <1>3 DEF Alone, Active, Crowding
  <1>4. QED
    BY <1>1, <1>2, <1>3 DEF Crowding

\* Where a command is, what the file and the directory hold for it.
Packs == {"pack pkg", "close"}
Launching == {"read", "open", "write", "running"}

HasFile(c) ==
  /\ cpc[c] \in Launching => file.magic
  /\ cpc[c] \in Packs \cup Launching \cup {"launch"} /\ scene.kind[c] # "launch" =>
       file.magic /\ file.entries[1].of = built[c]

HasEntry(c) ==
  cpc[c] \in {"open", "write"} =>
    at[c] - 1 \in DOMAIN file.entries /\ held[c] = file.entries[at[c] - 1]

HasUnpacked(c) ==
  /\ cpc[c] = "read" /\ at[c] > 1 => dir.bin = file.entries[1].of
  /\ cpc[c] \in {"open", "write"} /\ at[c] > 2 => dir.bin = file.entries[1].of
  /\ cpc[c] = "running" => ran[c] = file.entries[1].of

PackedBy(c) == HasFile(c) /\ HasEntry(c) /\ HasUnpacked(c)

\* A command that is alone finds what it has packed and unpacked.
Owned == ~spoilt => \A c \in Commands : Alone(c) => PackedBy(c)

\* The first entry of an archive is its binary.
LEMMA FirstEntry ==
  ASSUME Formed, Sound, file.magic
  PROVE  /\ Len(file.entries) \in Nat /\ Len(file.entries) >= 1
         /\ DOMAIN file.entries = 1 .. Len(file.entries)
         /\ file.entries[1].name = "bin"
         /\ \A i \in 2 .. Len(file.entries) : file.entries[i].name # "bin"
  <1>1. file.entries \in Seq(Entries) /\ file.entries # <<>>
    BY DEF Formed, Shapes, Archives, Sound
  <1>2. /\ Len(file.entries) \in Nat /\ Len(file.entries) # 0
        /\ DOMAIN file.entries = 1 .. Len(file.entries)
    BY <1>1, LenProperties, EmptySeq
  <1>3. QED
    BY <1>2 DEF Sound

LEMMA OwnedKept ==
  ASSUME Types, CommandsWait, Formed, Unspoilt, Crowding, Apart, Owned,
         NEW c \in Commands, Command(c)
  PROVE  Crowding' /\ Owned'
  <1>a. cpc \in [Commands -> Steps] /\ Pace(c) /\ at[c] \in Nat /\ at[c] >= 1
    BY DEF Types, Formed, Pace, Shapes
  <1>b. ~spoilt => Sound
    BY DEF Unspoilt
  <1>d. ASSUME Alone(c), NEW n \in {"file", "bin", "pkg"} PROVE <<c, n>> \notin shared
    BY <1>d DEF Alone, Apart
  <1>c. spoilt \in BOOLEAN
    BY DEF Formed, Shapes
  <1>1. CASE Start(c)
    <2>1. Crowding' /\ \A d \in Commands : Alone(d)' => d = c
      BY <1>1, StartAlone
    <2>2. (cpc'[c] = "launch" /\ scene'.kind[c] = "launch") \/ cpc'[c] = "pack bin"
      <3>1. scene' = scene
        BY <1>1 DEF Start
      <3>2. QED
        BY <1>a, <1>1, <3>1, StartFacts
    <2>3. PackedBy(c)'
      BY <2>2 DEF PackedBy, HasFile, HasEntry, HasUnpacked, Packs, Launching
    <2>4. QED
      BY <2>1, <2>3 DEF Owned
  <1>2. CASE Pack(c)
    <2>1. PICK w \in {"pack pkg", "close"} : cpc' = [cpc EXCEPT ![c] = w]
      BY <1>2, PackFacts
    <2>2. /\ UNCHANGED <<scene, built, spoilt, crowd>> /\ Active(c)
          /\ cpc[c] \in {"pack bin", "pack pkg"}
      BY <1>2, PackFacts DEF Active
    <2>3. Crowding' /\ \A d \in Commands : Alone(d)' => d = c /\ Alone(c) /\ cpc'[c] = w
      BY <2>1, <2>2, ActorAlone
    <2>4. ASSUME ~spoilt, Alone(c), cpc'[c] = w PROVE PackedBy(c)'
      <3>1. PackedBy(c) /\ Sound
        BY <1>b, <2>4 DEF Owned
      <3>2. scene.kind[c] # "launch"
        BY <2>2 DEF CommandsWait, Packing
      <3>3. file'.magic /\ file'.entries[1].of = built[c]
        <4>1. CASE cpc[c] = "pack bin"
          BY <1>2, <1>d, <2>4, <3>1, <4>1, PackSound
        <4>2. CASE cpc[c] = "pack pkg"
          <5>1. file.magic /\ file.entries[1].of = built[c]
            BY <3>1, <3>2, <4>2 DEF PackedBy, HasFile, Packs
          <5>2. file'.magic /\ file'.entries[1] = file.entries[1]
            BY <1>2, <1>d, <2>4, <3>1, <4>2, <5>1, PackSound
          <5>3. QED
            BY <5>1, <5>2
        <4>3. QED
          BY <2>2, <4>1, <4>2
      <3>4. QED
        BY <2>1, <2>2, <2>4, <3>3 DEF PackedBy, HasFile, HasEntry, HasUnpacked, Packs, Launching
    <2>5. QED
      BY <2>2, <2>3, <2>4 DEF Owned
  <1>3. CASE Plain(c)
    <2>1. /\ UNCHANGED <<scene, file, dir, built, at, held, ran, crowd>> /\ Active(c)
          /\ ~spoilt' => ~spoilt
      BY <1>c, <1>3, PlainFacts
    <2>2. PICK w : /\ cpc' = [cpc EXCEPT ![c] = w]
                   /\ w \in {"ended", "sent"} \/ (w = "read" /\ cpc[c] = "launch" /\ file.magic)
      <3>1. \/ cpc' = [cpc EXCEPT ![c] = "ended"]
            \/ cpc' = [cpc EXCEPT ![c] = "sent"]
            \/ cpc' = [cpc EXCEPT ![c] = "read"] /\ cpc[c] = "launch" /\ file.magic
        BY <1>3, PlainFacts
      <3>2. CASE cpc' = [cpc EXCEPT ![c] = "ended"]
        BY <3>2
      <3>3. CASE cpc' = [cpc EXCEPT ![c] = "sent"]
        BY <3>3
      <3>4. CASE cpc' = [cpc EXCEPT ![c] = "read"] /\ cpc[c] = "launch" /\ file.magic
        BY <3>4
      <3>5. QED
        BY <3>1, <3>2, <3>3, <3>4
    <2>3. Crowding' /\ \A d \in Commands : Alone(d)' => d = c /\ Alone(c) /\ cpc'[c] = w
      BY <2>1, <2>2, ActorAlone
    <2>4. ASSUME ~spoilt, Alone(c), cpc'[c] = w PROVE PackedBy(c)'
      <3>1. PackedBy(c)
        BY <2>4 DEF Owned
      <3>2. CASE w \in {"ended", "sent"}
        BY <2>4, <3>2 DEF PackedBy, HasFile, HasEntry, HasUnpacked, Packs, Launching
      <3>3. CASE w = "read" /\ cpc[c] = "launch" /\ file.magic
        <4>1. at[c] = 1
          BY <1>a, <3>3 DEF Pace, Early
        <4>2. HasFile(c)' /\ HasEntry(c)'
          BY <2>1, <2>4, <3>1, <3>3 DEF PackedBy, HasFile, HasEntry, Launching
        <4>3. HasUnpacked(c)'
          BY <2>1, <2>4, <3>3, <4>1 DEF HasUnpacked
        <4>4. QED
          BY <4>2, <4>3 DEF PackedBy
      <3>4. QED
        BY <2>2, <3>2, <3>3
    <2>5. QED
      BY <2>1, <2>3, <2>4 DEF Owned
  <1>4. CASE Close(c)
    <2>1. /\ cpc[c] = "close" /\ UNCHANGED <<scene, built, at, held, ran, dir, crowd>>
          /\ ~spoilt' => UNCHANGED file /\ ~spoilt
      BY <1>4, CloseFacts
    <2>2. PICK w \in {"ended", "put", "launch"} : cpc' = [cpc EXCEPT ![c] = w]
      BY <1>4, CloseFacts
    <2>3. Crowding' /\ \A d \in Commands : Alone(d)' => d = c /\ Alone(c) /\ cpc'[c] = w
      BY <2>1, <2>2, ActorAlone DEF Active
    <2>4. ASSUME ~spoilt', Alone(c), cpc'[c] = w PROVE PackedBy(c)'
      <3>1. PackedBy(c)
        BY <2>1, <2>4 DEF Owned
      <3>2. HasFile(c)'
        BY <2>1, <2>2, <2>4, <3>1 DEF PackedBy, HasFile, Packs, Launching
      <3>3. HasEntry(c)' /\ HasUnpacked(c)'
        BY <2>2, <2>4 DEF HasEntry, HasUnpacked
      <3>4. QED
        BY <3>2, <3>3 DEF PackedBy
    <2>5. QED
      BY <2>3, <2>4 DEF Owned
  <1>5. CASE Reads(c)
    <2>1. /\ cpc[c] = "read" /\ at[c] \in 1 .. Len(file.entries)
          /\ cpc' = [cpc EXCEPT ![c] = "open"]
          /\ UNCHANGED <<scene, file, dir, built, ran, spoilt, crowd>>
          /\ <<c, "file">> \notin shared => held'[c] = file.entries[at[c]]
          /\ at'[c] = at[c] + 1
      BY <1>5, ReadFacts
    <2>2. Crowding' /\ \A d \in Commands : Alone(d)' => d = c /\ Alone(c) /\ cpc'[c] = "open"
      BY <2>1, ActorAlone DEF Active
    <2>3. ASSUME ~spoilt, Alone(c), cpc'[c] = "open" PROVE PackedBy(c)'
      <3>1. PackedBy(c) /\ Sound
        BY <1>b, <2>3 DEF Owned
      <3>2. HasFile(c)'
        BY <2>1, <2>3, <3>1 DEF PackedBy, HasFile, Packs, Launching
      <3>3. file.magic /\ DOMAIN file.entries = 1 .. Len(file.entries)
        <4>1. file.magic
          BY <2>1, <3>1 DEF PackedBy, HasFile, Launching
        <4>2. QED
          BY <3>1, <4>1, FirstEntry
      <3>4. at'[c] - 1 = at[c] /\ (at'[c] > 2 => at[c] > 1)
        BY <1>a, <2>1
      <3>5. HasEntry(c)'
        BY <1>d, <2>1, <2>3, <3>3, <3>4 DEF HasEntry
      <3>6. HasUnpacked(c)'
        BY <2>1, <2>3, <3>1, <3>4 DEF PackedBy, HasUnpacked
      <3>7. QED
        BY <3>2, <3>5, <3>6 DEF PackedBy
    <2>4. QED
      BY <2>1, <2>2, <2>3 DEF Owned
  <1>6. CASE Opens(c)
    <2>1. UNCHANGED <<scene, file, built, at, held, ran, spoilt, crowd>> /\ cpc[c] = "open"
      BY <1>6, UnpackFacts DEF Opens
    <2>2. PICK w \in {"read", "write"} : cpc' = [cpc EXCEPT ![c] = w]
      BY <1>6, UnpackFacts
    <2>3. Crowding' /\ \A d \in Commands : Alone(d)' => d = c /\ Alone(c) /\ cpc'[c] = w
      BY <2>1, <2>2, ActorAlone DEF Active
    <2>4. ASSUME ~spoilt, Alone(c) PROVE PackedBy(c)'
      <3>1. PackedBy(c) /\ Sound
        BY <1>b, <2>4 DEF Owned
      <3>2. ~Busy(c)
        BY <2>4 DEF Busy, Crowding, Active
      <3>3. cpc'[c] = "write" /\ dir'.bin = IF held[c].name = "bin" THEN Torn ELSE dir.bin
        BY <1>a, <1>6, <3>2, UnpackFacts
      <3>4. HasFile(c)' /\ HasEntry(c)'
        BY <2>1, <3>1, <3>3 DEF PackedBy, HasFile, HasEntry, Packs, Launching
      <3>5. file.magic /\ at[c] - 1 \in DOMAIN file.entries /\ held[c] = file.entries[at[c] - 1]
        BY <2>1, <3>1 DEF PackedBy, HasFile, HasEntry, Launching
      <3>6. at[c] > 2 => dir'.bin = dir.bin
        <4>1. at[c] > 2 => at[c] - 1 \in 2 .. Len(file.entries)
          BY <1>a, <3>1, <3>5, FirstEntry
        <4>2. QED
          BY <3>1, <3>3, <3>5, <4>1, FirstEntry
      <3>7. HasUnpacked(c)'
        BY <2>1, <3>1, <3>3, <3>6 DEF PackedBy, HasUnpacked
      <3>8. QED
        BY <3>4, <3>7 DEF PackedBy
    <2>5. QED
      BY <2>1, <2>3, <2>4 DEF Owned
  <1>7. CASE Writes(c)
    <2>1. UNCHANGED <<scene, file, built, at, held, ran, crowd>> /\ cpc[c] = "write"
      BY <1>7, UnpackFacts DEF Writes
    <2>2. cpc' = [cpc EXCEPT ![c] = "read"]
      BY <1>7, UnpackFacts
    <2>3. Crowding' /\ \A d \in Commands : Alone(d)' => d = c /\ Alone(c) /\ cpc'[c] = "read"
      BY <2>1, <2>2, ActorAlone DEF Active
    <2>4. ASSUME ~spoilt', Alone(c), cpc'[c] = "read" PROVE PackedBy(c)'
      <3>1. /\ dir'.bin = IF held[c].name = "bin" THEN held[c].of ELSE dir.bin
            /\ ~spoilt
        <4>1. held[c].name \in {"file", "bin", "pkg"}
          BY <1>7, UnpackFacts DEF Entries
        <4>2. <<c, held[c].name>> \notin shared
          BY <1>d, <2>4, <4>1
        <4>3. QED
          BY <1>7, <2>4, <4>2, UnpackFacts
      <3>2. PackedBy(c) /\ Sound
        BY <1>b, <2>4, <3>1 DEF Owned
      <3>3. HasFile(c)' /\ HasEntry(c)'
        BY <2>1, <2>4, <3>2 DEF PackedBy, HasFile, HasEntry, Packs, Launching
      <3>4. file.magic /\ at[c] - 1 \in DOMAIN file.entries /\ held[c] = file.entries[at[c] - 1]
        BY <2>1, <3>2 DEF PackedBy, HasFile, HasEntry, Launching
      <3>5. dir'.bin = file.entries[1].of
        <4>1. at[c] - 1 \in 1 .. Len(file.entries) /\ file.entries[1].name = "bin"
          BY <3>2, <3>4, FirstEntry
        <4>2. CASE at[c] = 2
          BY <3>1, <3>4, <4>1, <4>2
        <4>3. CASE at[c] > 2
          <5>1. at[c] - 1 \in 2 .. Len(file.entries)
            BY <1>a, <4>1, <4>3
          <5>2. held[c].name # "bin"
            BY <3>2, <3>4, <5>1, FirstEntry
          <5>3. QED
            BY <2>1, <3>1, <3>2, <4>3, <5>2 DEF PackedBy, HasUnpacked
        <4>4. at[c] = 2 \/ at[c] > 2
          BY <1>a, <4>1
        <4>5. QED
          BY <4>2, <4>3, <4>4
      <3>6. HasUnpacked(c)'
        BY <2>1, <2>4, <3>5 DEF HasUnpacked
      <3>7. QED
        BY <3>3, <3>6 DEF PackedBy
    <2>5. QED
      BY <2>3, <2>4 DEF Owned
  <1>8. CASE Execute(c)
    <2>1. /\ UNCHANGED <<scene, file, dir, built, at, held, crowd, spoilt>>
          /\ cpc[c] = "read" /\ at[c] > Len(file.entries)
      BY <1>8, ExecuteFacts DEF machine
    <2>2. PICK w \in {"ended", "running"} :
            /\ cpc' = [cpc EXCEPT ![c] = w]
            /\ w = "running" => ran' = [ran EXCEPT ![c] = dir.bin]
      BY <1>8, ExecuteFacts
    <2>3. Crowding' /\ \A d \in Commands : Alone(d)' => d = c /\ Alone(c) /\ cpc'[c] = w
      BY <2>1, <2>2, ActorAlone DEF Active
    <2>4. ASSUME ~spoilt, Alone(c), cpc'[c] = w PROVE PackedBy(c)'
      <3>1. PackedBy(c) /\ Sound
        BY <1>b, <2>4 DEF Owned
      <3>2. HasFile(c)' /\ HasEntry(c)'
        BY <2>1, <2>2, <2>4, <3>1 DEF PackedBy, HasFile, HasEntry, Packs, Launching
      <3>3. file.magic
        BY <2>1, <3>1 DEF PackedBy, HasFile, Launching
      <3>4. at[c] > 1
        BY <1>a, <2>1, <3>1, <3>3, FirstEntry
      <3>5. w = "running" => ran'[c] = dir.bin
        BY <2>2 DEF Formed, Shapes
      <3>6. HasUnpacked(c)'
        BY <2>1, <2>2, <2>4, <3>1, <3>4, <3>5 DEF PackedBy, HasUnpacked
      <3>7. QED
        BY <3>2, <3>6 DEF PackedBy
    <2>5. QED
      BY <2>1, <2>3, <2>4 DEF Owned
  <1>9. QED
    BY <1>1, <1>2, <1>3, <1>4, <1>5, <1>6, <1>7, <1>8 DEF Command, Plain

\* The inductive invariant.
Builds == Formed /\ Executable /\ Unspoilt /\ Crowding /\ Apart /\ Owned

LEMMA InitBuilds == Init => Builds
  <1> SUFFICES ASSUME Init PROVE Builds
    OBVIOUS
  <1>1. scene.runnable \in BOOLEAN
    BY ScenesAssumption DEF Init, Scene
  <1>2. dir = [bin |-> IF scene.runnable THEN 1 ELSE 0, pkg |-> 0, x |-> scene.runnable]
    BY DEF Init, Torn
  <1>3. dir \in Dirs /\ dir.x = scene.runnable
    BY <1>1, <1>2 DEF Dirs, Torn
  <1>4. file \in Archives /\ file.entries = <<>> /\ file.magic = FALSE
    BY EmptyIsArchive DEF Init
  <1>5. NoEntry \in HeldEntries
    BY DEF NoEntry, Entry, HeldEntries, Torn
  <1>6. \A c \in Commands : cpc[c] \in {"new", "ended"} /\ at[c] = 1
    BY DEF Init
  <1>7. Shapes
    <2>1. held \in [Commands -> HeldEntries]
      BY <1>5 DEF Init
    <2>2. /\ built \in [Commands -> Nat] /\ at \in [Commands -> Nat] /\ ran \in [Commands -> Int]
          /\ builds \in Nat /\ spoilt \in BOOLEAN
      <3>1. /\ built = [c \in Commands |-> 0] /\ at = [c \in Commands |-> 1]
            /\ ran = [c \in Commands |-> 0] /\ builds = 1 /\ spoilt = FALSE
        BY DEF Init
      <3>2. built \in [Commands -> Nat] /\ ran \in [Commands -> Int]
        BY <3>1
      <3>3. at \in [Commands -> Nat]
        BY <3>1
      <3>4. builds \in Nat /\ spoilt \in BOOLEAN
        BY <3>1
      <3>5. QED
        BY <3>2, <3>3, <3>4
    <2>3. QED
      BY <1>3, <1>4, <2>1, <2>2 DEF Shapes
  <1>8. Formed
    BY <1>6, <1>7 DEF Formed, Pace, Active
  <1>9. Executable /\ Crowding /\ Owned
    BY <1>3, <1>6 DEF Executable, Crowding, Owned, Alone, Active
  <1>10. DOMAIN <<>> = {}
    BY NoEntries
  <1>11. Unspoilt /\ Apart
    BY <1>4, <1>10 DEF Init, Unspoilt, Sound, Apart
  <1>12. QED
    BY <1>8, <1>9, <1>11 DEF Builds

LEMMA NextBuilds == Tokens /\ Builds /\ [Next]_vars => Builds'
  <1> SUFFICES ASSUME Tokens, Builds, [Next]_vars PROVE Builds'
    OBVIOUS
  <1>a. /\ Types /\ CommandsWait /\ Formed /\ Executable /\ Unspoilt
        /\ Crowding /\ Apart /\ Owned
    BY DEF Tokens, Builds
  <1>1. ASSUME NEW c \in Commands, Command(c) PROVE Builds'
    BY <1>a, <1>1, CommandsKeepFormed, ExecutableKept, UnspoiltKept, ApartKept, OwnedKept
    DEF Builds
  <1>2. CASE UNCHANGED <<machine, command, crowd, scene, spoilt>>
    BY <1>a, <1>2
    DEF machine, command, Builds, Formed, Shapes, Pace, Active, Executable, Unspoilt, Sound,
        Apart, Crowding, Alone, Owned, PackedBy, HasFile, HasEntry, HasUnpacked
  <1>3. CASE Alter
    <2>1. UNCHANGED <<scene, builds, dir, shared, command, crowd>> /\ spoilt' = TRUE
      BY <1>3 DEF Alter
    <2>2. file' \in Archives
      BY <1>a, <1>3, AlterationsAreArchives DEF Alter, Formed, Shapes
    <2>3. Formed'
      BY <1>a, <2>1, <2>2 DEF Formed, Shapes, Pace, Active, command
    <2>4. Executable' /\ Unspoilt' /\ Crowding' /\ Apart' /\ Owned'
      BY <1>a, <2>1 DEF Executable, Unspoilt, Crowding, Apart, Owned, Alone, Active, command
    <2>5. QED
      BY <2>3, <2>4 DEF Builds
  <1>4. CASE \/ Dock \/ Pipe \/ Killed \/ UNCHANGED vars
             \/ \E r \in Clients : Arrives(r) \/ Leaves(r)
    <2>1. UNCHANGED <<machine, command, crowd, scene, spoilt>>
      BY <1>4
      DEF Dock, Pipe, Killed, Dies, DockStarts, Token, SaveToken, Bind, Read, Act, PutOpens,
          PutWrites, Reply, DockAccepts, Arrives, Leaves, Machine, vars
    <2>2. QED
      BY <1>2, <2>1
  <1>5. QED
    BY <1>1, <1>3, <1>4 DEF Next

LEMMA BuildsRun == Builds => RunsOwnBuild
  <1> SUFFICES ASSUME Builds, NEW c \in Commands, cpc[c] = "running"
      PROVE  /\ ~spoilt /\ c \notin crowd => ran[c] = Own(c)
             /\ scene.posix => scene.runnable
    BY DEF RunsOwnBuild
  <1>2. scene.posix => scene.runnable
    BY DEF Builds, Executable
  <1>3. ASSUME ~spoilt, c \notin crowd PROVE ran[c] = Own(c)
    <2>1. PackedBy(c)
      BY <1>3 DEF Builds, Owned, Alone, Active
    <2>2. QED
      BY <2>1 DEF PackedBy, HasFile, HasUnpacked, Launching, Own
  <1>4. QED
    BY <1>2, <1>3

(* A command that runs alone, over files nothing has spoilt, runs the      *)
(* build that it packed, whatever older builds or mixtures of two others   *)
(* lie where it unpacks; and on POSIX none runs at all unless the file was *)
(* made executable by hand. (buraaq_bur_launch)                            *)
THEOREM LaunchesOwnBuild == Spec => []RunsOwnBuild
  BY InitTokens, NextTokens, InitBuilds, NextBuilds, BuildsRun, PTL DEF Spec
=============================================================================
