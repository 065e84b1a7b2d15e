-------------------------------- MODULE Ship --------------------------------
(***************************************************************************)
(* `buraaq pack`, `launch` and `ship` (compiler-buraaq/src/ship.bq) on the *)
(* archive functions of stdlib/runtime/buraaq_std.c, and the dock that     *)
(* `buraaq dock` runs: buraaq_dock_run of the same file, with its token.   *)
(*                                                                         *)
(* Commands run as processes of one user, who may start several: they      *)
(* share target/ship/<app>.bur and the directory ~/.buraaq/run/ship, which *)
(* launch keeps from one time to the next.  The dock is a process with one *)
(* thread, which reads each request to its end with no timeout and works   *)
(* on the stored archive in place; it may be killed at any step, and is    *)
(* started again.  Writes may fail; fwrite into the unpacked files and     *)
(* into the stored archive, and fclose of a packed one, are not checked.   *)
(***************************************************************************)
EXTENDS Bur, FiniteSets

CONSTANTS
  Commands,    \* the command lines that are run
  Clients,     \* others that connect to the dock
  NoJob,
  Scenes,      \* what is run, on what machine, and what the clients may send
  MaxMishaps   \* bounds failed writes, alterations and kills, for each scene

Methods == {"GET", "PUT", "DELETE", "POST"}
Paths == {"health", "apps", "app", "bad name", "elsewhere"}
Request == [method : Methods, path : Paths, keyed : BOOLEAN, huge : BOOLEAN,
            sent : {"nothing", "head", "part", "all"}]
Kinds == {"none", "pack", "launch", "local", "host"}
Scene == [posix : BOOLEAN, pkg : BOOLEAN, kind : [Commands -> Kinds],
          runnable : BOOLEAN, dock : BOOLEAN, once : BOOLEAN, env : BOOLEAN,
          carried : {"file", "variable"}, asks : [Clients -> SUBSET Request]]

ASSUME ScenesAssumption == Scenes \subseteq Scene
ASSUME NamesAssumption == Commands \cap Clients = {} /\ NoJob \notin Commands \cup Clients
ASSUME MaxMishapsAssumption == MaxMishaps \in [Scenes -> Nat]

Peers == Commands \cup Clients

VARIABLES
  scene, mishaps,
  builds,           \* how many builds there have been
  file,             \* target/ship/<app>.bur
  dir,              \* the unpacked bin and pkg, and whether bin may be executed
  shared,           \* who has which of them open beside another who writes it
  cpc, built,       \* each command: where it is, and the build it packed
  at, held, found,  \* its place in the archive, the entry in its memory, and
                    \* whether it met a binary
  ran, code,        \* the build it executed, and what it returned
  crowd,            \* history: the commands that ran beside another one
  spoilt,           \* history: a write failed or the file was altered
  dpc, job,         \* where the dock's thread is, and for whom
  token, saved,     \* its token, and what the token file holds
  tokens,           \* how many tokens were made
  live,             \* the stored archive
  ask, cred, body,  \* per peer: its request, the token and the body it carries
  stage, gone, reply,
  status,           \* the answer about to be sent
  torn              \* history: the last change of the archive was not whole

machine == <<builds, file, dir, shared>>
command == <<cpc, built, at, held, found, ran, code>>
store == <<token, saved, tokens, live>>
peers == <<ask, cred, body, stage, gone, reply>>
vars == <<scene, mishaps, machine, command, crowd, spoilt, dpc, job, store,
          peers, status, torn>>

NoAsk == [method |-> "none"]
NoEntry == Entry("none", Torn)
EnvToken == -1      \* the value of BURAAQ_DOCK_TOKEN
NoToken == 0        \* no file, an empty one, or no Authorization header

Init ==
  /\ scene \in Scenes
  /\ mishaps = 0 /\ builds = 1
  /\ file = NoFile
  /\ dir = [bin |-> IF scene.runnable THEN 1 ELSE Torn, pkg |-> Torn,
            x |-> scene.runnable]
  /\ shared = {}
  /\ cpc = [c \in Commands |-> IF scene.kind[c] = "none" THEN "ended" ELSE "new"]
  /\ built = [c \in Commands |-> 0]
  /\ at = [c \in Commands |-> 1] /\ found = [c \in Commands |-> FALSE]
  /\ held = [c \in Commands |-> NoEntry]
  /\ ran = [c \in Commands |-> 0] /\ code = [c \in Commands |-> 0]
  /\ crowd = {} /\ spoilt = FALSE
  /\ dpc = IF scene.dock THEN "down" ELSE "stopped"
  /\ job = NoJob
  /\ token = NoToken /\ saved = NoToken /\ tokens = 0
  /\ live = NoFile
  /\ ask = [r \in Peers |-> NoAsk] /\ cred = [r \in Peers |-> NoToken]
  /\ body = [r \in Peers |-> NoFile]
  /\ stage = [r \in Peers |-> "new"] /\ gone = [r \in Peers |-> FALSE]
  /\ reply = [r \in Peers |-> 0]
  /\ status = 0 /\ torn = FALSE

Mishap == mishaps < MaxMishaps[scene] /\ mishaps' = mishaps + 1

-----------------------------------------------------------------------------
(* buraaq_bur_pack, by the commands that build first *)

Active(c) == cpc[c] \notin {"new", "ended"}
Others(c) == {d \in Commands \ {c} : Active(d)}
Join(c) == crowd' = IF Others(c) = {} THEN crowd ELSE crowd \cup {c} \cup Others(c)

End(c, n) ==
  /\ cpc' = [cpc EXCEPT ![c] = "ended"]
  /\ code' = [code EXCEPT ![c] = n]

Goes(c, where) == cpc' = [cpc EXCEPT ![c] = where] /\ UNCHANGED code

\* The commands that write a file, and those that have it open.  No open file
\* keeps another command from opening it: "wb" only empties it.
Writers(n) ==
  IF n = "file" THEN {d \in Commands : cpc[d] \in {"pack bin", "pack pkg", "close"}}
  ELSE {d \in Commands : cpc[d] = "write" /\ held[d].name = n}
Holders(n) ==
  Writers(n) \cup IF n = "file" THEN {d \in Commands : cpc[d] \in {"read", "open", "write"}}
                  ELSE {}

\* Command c opens file n, and hits those who have it open if it empties it.
Shares(c, n, hit) ==
  shared' = (shared \ {<<c, n>>})
              \cup {<<d, n>> : d \in (hit \ {c})
                                 \cup IF Writers(n) \ {c} = {} THEN {} ELSE {c}}

DockIdle == UNCHANGED <<dpc, job, store, status, torn>>

\* A command starts: pack and ship build and open the file, which empties it.
Start(c) ==
  /\ cpc[c] = "new"
  /\ Join(c)
  /\ IF scene.kind[c] = "launch"
     THEN Goes(c, "launch") /\ UNCHANGED <<builds, built, file, shared>>
     ELSE /\ Shares(c, "file", Holders("file"))
          /\ builds' = builds + 1
          /\ built' = [built EXCEPT ![c] = builds + 1]
          /\ file' = Empty
          /\ Goes(c, "pack bin")
  /\ UNCHANGED <<scene, mishaps, dir, at, held, found, ran, spoilt, peers>>
  /\ DockIdle

\* What is written to the archive, or a mixture if two write it at once.
Adds(c, archive) ==
  \/ file' = archive
  \/ <<c, "file">> \in shared /\ file' \in Mixtures(archive)

\* bur_add_file of the binary, after the magic, and of buraaq.pkg.
Pack(c) ==
  /\ \/ /\ cpc[c] = "pack bin"
        /\ Adds(c, Packed(built[c], FALSE))
        /\ Goes(c, IF scene.pkg THEN "pack pkg" ELSE "close")
     \/ /\ cpc[c] = "pack pkg"
        /\ Adds(c, [file EXCEPT !.entries = Append(@, Entry("pkg", built[c]))])
        /\ Goes(c, "close")
  /\ UNCHANGED <<scene, mishaps, builds, dir, shared, built, at, held, found, ran, crowd,
                 spoilt, peers>>
  /\ DockIdle

\* A write that fails ends the command, and what was written stays.
PackFails(c) ==
  /\ cpc[c] \in {"pack bin", "pack pkg"}
  /\ Mishap
  /\ spoilt' = TRUE
  /\ End(c, 1)
  /\ UNCHANGED <<scene, machine, built, at, held, found, ran, crowd, peers>>
  /\ DockIdle

\* fclose writes what is buffered; that it failed is not noticed.
Close(c) ==
  /\ cpc[c] = "close"
  /\ \/ UNCHANGED <<file, mishaps, spoilt>>
     \/ Mishap /\ file' \in Cuts(file) /\ spoilt' = TRUE
  /\ CASE scene.kind[c] = "pack" -> End(c, 0)
       [] scene.kind[c] = "local" -> Goes(c, "launch")
       [] scene.kind[c] = "host" -> Goes(c, "put")
  /\ UNCHANGED <<scene, builds, dir, shared, built, at, held, found, ran, crowd, peers>>
  /\ DockIdle

\* A copy, a disk or a person changes the packed file.
Alter ==
  /\ Mishap
  /\ file' \in Alterations(file)
  /\ spoilt' = TRUE
  /\ UNCHANGED <<scene, builds, dir, shared, command, crowd, peers>>
  /\ DockIdle

-----------------------------------------------------------------------------
(* buraaq_bur_launch *)

LaunchOpens(c) ==
  /\ cpc[c] = "launch"
  /\ IF file.magic THEN Goes(c, "read") /\ Shares(c, "file", {})
     ELSE End(c, 1) /\ UNCHANGED shared
  /\ UNCHANGED <<scene, mishaps, builds, file, dir, built, at, held, found, ran, crowd,
                 spoilt, peers>>
  /\ DockIdle

\* The next entry is read whole before anything is done with it; its data is
\* a mixture if the archive changes meanwhile.
Reads(c) ==
  /\ cpc[c] = "read" /\ at[c] <= Len(file.entries)
  /\ \E e \in {file.entries[at[c]]} \cup
              IF <<c, "file">> \in shared THEN {Entry(file.entries[at[c]].name, Torn)} ELSE {} :
       held' = [held EXCEPT ![c] = e]
  /\ at' = [at EXCEPT ![c] = @ + 1]
  /\ Goes(c, "open")
  /\ UNCHANGED <<scene, mishaps, machine, built, found, ran, crowd, spoilt, peers>>
  /\ DockIdle

\* A launch that unpacks no binary where it finds one.
BusyOrThere(c) == held[c].name = "bin" /\ dir.x

\* A binary that runs cannot be opened for writing.
Busy(c) == held[c].name = "bin" /\ \E d \in Commands \ {c} : cpc[d] = "running"

\* fopen empties the unpacked file, whoever else is writing it.  When it fails
\* the file is left as it is, and a binary is remembered as the one to run all
\* the same.
Opens(c) ==
  /\ cpc[c] = "open"
  /\ found' = [found EXCEPT ![c] = @ \/ held[c].name = "bin"]
  /\ IF Busy(c) THEN Goes(c, "read") /\ UNCHANGED <<dir, shared>>
     ELSE /\ Shares(c, held[c].name, Holders(held[c].name))
          /\ dir' = [dir EXCEPT ![held[c].name] = Torn,
                                !.x = @ \/ (held[c].name = "bin" /\ ~scene.posix)]
          /\ Goes(c, "write")
  /\ UNCHANGED <<scene, mishaps, builds, file, built, at, held, ran, crowd, spoilt,
                 peers>>
  /\ DockIdle

\* fwrite of the entry, unchecked.  What two have written to one file is
\* what the one wrote, what the other did, or a mixture.
Writes(c) ==
  /\ cpc[c] = "write"
  /\ \/ dir' = [dir EXCEPT ![held[c].name] = held[c].of] /\ UNCHANGED <<mishaps, spoilt>>
     \/ /\ <<c, held[c].name>> \in shared
        /\ dir' \in {dir, [dir EXCEPT ![held[c].name] = Torn]}
        /\ UNCHANGED <<mishaps, spoilt>>
     \/ /\ Mishap /\ spoilt' = TRUE
        /\ dir' = [dir EXCEPT ![held[c].name] = Torn]
  /\ Goes(c, "read")
  /\ UNCHANGED <<scene, builds, file, shared, built, at, held, found, ran, crowd, peers>>
  /\ DockIdle

\* The file ends, or what follows is no entry: run the binary seen last, if
\* nobody writes it.  A file made here is executable on Windows only.
Execute(c) ==
  /\ cpc[c] = "read" /\ at[c] > Len(file.entries)
  /\ IF ~found[c] THEN End(c, 1) /\ UNCHANGED ran
     ELSE IF ~dir.x \/ Writers("bin") # {}
     THEN End(c, IF scene.posix THEN 127 ELSE 1) /\ UNCHANGED ran
     ELSE Goes(c, "running") /\ ran' = [ran EXCEPT ![c] = dir.bin]
  /\ UNCHANGED <<scene, mishaps, machine, built, at, held, found, crowd, spoilt, peers>>
  /\ DockIdle

\* The program ends, and the launch that waits for it.
Exits(c) ==
  /\ cpc[c] = "running"
  /\ End(c, 0)
  /\ UNCHANGED <<scene, mishaps, machine, built, at, held, found, ran, crowd, spoilt,
                 peers>>
  /\ DockIdle

-----------------------------------------------------------------------------
(* buraaq_http_put_file and the clients *)

\* A token that is presented: a copy of the dock's file, or its variable.
Copied == IF scene.env THEN EnvToken ELSE saved

Listening == dpc \notin {"down", "token", "save", "bind", "stopped"}

\* buraaq ship HOST sends the file as it finds it, and of the token what the
\* variable holds on its machine; POSIX has no upload.
Sends(c) ==
  /\ cpc[c] = "put"
  /\ IF scene.posix \/ ~file.there \/ ~Listening
     THEN End(c, 1) /\ UNCHANGED <<ask, cred, body, stage>>
     ELSE /\ Goes(c, "sent")
          /\ ask' = [ask EXCEPT ![c] = [method |-> "PUT", path |-> "app", keyed |-> TRUE,
                                       huge |-> FALSE, sent |-> "all"]]
          /\ cred' = [cred EXCEPT ![c] =
                         IF scene.carried = "variable" THEN Copied ELSE NoToken]
          /\ body' = [body EXCEPT ![c] = file]
          /\ stage' = [stage EXCEPT ![c] = "waiting"]
  /\ UNCHANGED <<scene, mishaps, machine, built, at, held, found, ran, crowd,
                 spoilt, gone, reply>>
  /\ DockIdle

Hears(c) ==
  /\ cpc[c] = "sent" /\ stage[c] \in {"served", "dropped"}
  /\ End(c, IF reply[c] \in 200 .. 299 THEN 0 ELSE 1)
  /\ UNCHANGED <<scene, mishaps, machine, built, at, held, found, ran, crowd,
                 spoilt, peers>>
  /\ DockIdle

\* A client connects; an upload of its own is a build that nobody else has.
Arrives(r) ==
  /\ stage[r] = "new" /\ Listening
  /\ \E a \in scene.asks[r] :
       /\ ask' = [ask EXCEPT ![r] = a]
       /\ cred' = [cred EXCEPT ![r] = IF a.keyed THEN Copied ELSE NoToken]
       /\ body' = [body EXCEPT ![r] =
                      IF a.method = "PUT" THEN Packed(100, FALSE) ELSE NoFile]
  /\ stage' = [stage EXCEPT ![r] = "waiting"]
  /\ UNCHANGED <<scene, mishaps, machine, command, crowd, spoilt, gone, reply>>
  /\ DockIdle

\* A client gives up, whatever it has sent.
Leaves(r) ==
  /\ stage[r] = "waiting" /\ ~gone[r]
  /\ gone' = [gone EXCEPT ![r] = TRUE]
  /\ UNCHANGED <<scene, mishaps, machine, command, crowd, spoilt, ask, cred, body,
                 stage, reply>>
  /\ DockIdle

-----------------------------------------------------------------------------
(* buraaq_dock_run: the token, the socket, then one request after another *)

Machine == UNCHANGED <<machine, command, crowd, scene>>

DockStarts ==
  /\ dpc = "down"
  /\ dpc' = "token"
  /\ Machine /\ UNCHANGED <<mishaps, spoilt, job, store, peers, status, torn>>

\* A start that makes a new token whatever the file says.
TokenAfresh ==
  /\ dpc = "token"
  /\ IF scene.env THEN token' = EnvToken /\ dpc' = "bind" /\ UNCHANGED tokens
     ELSE tokens' = tokens + 1 /\ token' = tokens + 1 /\ dpc' = "save"
  /\ Machine /\ UNCHANGED <<mishaps, spoilt, job, saved, live, peers, status, torn>>

\* bq_dock_token: the variable, else the file, else a new one to be saved.
Token ==
  /\ dpc = "token"
  /\ IF scene.env THEN token' = EnvToken /\ dpc' = "bind" /\ UNCHANGED tokens
     ELSE IF saved # NoToken THEN token' = saved /\ dpc' = "bind" /\ UNCHANGED tokens
     ELSE tokens' = tokens + 1 /\ token' = tokens + 1 /\ dpc' = "save"
  /\ Machine /\ UNCHANGED <<mishaps, spoilt, job, saved, live, peers, status, torn>>

\* The token file is written once the directory is there; a failure to
\* write it is not noticed.
SaveToken ==
  /\ dpc = "save"
  /\ \/ saved' = token /\ UNCHANGED mishaps
     \/ Mishap /\ UNCHANGED saved
  /\ dpc' = "bind"
  /\ Machine /\ UNCHANGED <<spoilt, job, token, tokens, live, peers, status, torn>>

\* bq_listen_port; the port may be taken.
Bind ==
  /\ dpc = "bind"
  /\ \/ dpc' = "accept" /\ UNCHANGED mishaps
     \/ dpc' = "stopped" /\ Mishap
  /\ Machine /\ UNCHANGED <<spoilt, job, store, peers, status, torn>>

DockAccepts(r) ==
  /\ dpc = "accept" /\ stage[r] = "waiting"
  /\ job' = r /\ dpc' = "read"
  /\ Machine /\ UNCHANGED <<mishaps, spoilt, store, peers, status, torn>>

\* A read that the end of the connection does not end.
ReadsToTheEnd == ask[job].sent = "all" \/ (ask[job].huge /\ ~gone[job])

\* bq_http_read returns: on a length it will not take, on the whole request,
\* or when the client has gone, with the part of it that came.
CanRead ==
  \/ ask[job].huge /\ ask[job].sent \in {"part", "all"}
  \/ ask[job].sent = "all"
  \/ gone[job]

\* Nothing before the first blank line is read as a request with no path; a
\* head cut short is taken as it is, without a body.
Read ==
  /\ dpc = "read" /\ CanRead
  /\ dpc' = "act"
  /\ Machine /\ UNCHANGED <<mishaps, spoilt, job, store, peers, status, torn>>

Answer(n) == status' = n /\ dpc' = "reply"

Authed == cred[job] = token

\* What an app is asked for by who knows the token: 0 stands for an upload,
\* which is answered once it is written.
AppVerdict(a) ==
  CASE a.method = "PUT" -> 0
    [] a.method = "DELETE" -> 204
    [] a.method = "GET" -> IF live.there THEN 200 ELSE 404
    [] OTHER -> 405

\* The answer of a request that does not write.
Verdict(a) ==
  IF a.sent = "nothing" THEN 404
  ELSE IF a.huge /\ a.sent # "head" THEN 400
  ELSE CASE a.path = "health" -> IF a.method = "GET" THEN 200 ELSE 404
         [] a.path = "apps" -> IF a.method # "GET" THEN 404
                               ELSE IF Authed THEN 200 ELSE 401
         [] a.path = "elsewhere" -> 404
         [] a.path = "bad name" -> 400
         [] OTHER -> IF Authed THEN AppVerdict(a) ELSE 401

Act ==
  LET a == ask[job]
      n == Verdict(a)
  IN /\ dpc = "act"
     /\ IF n = 0 THEN dpc' = "open" /\ UNCHANGED status ELSE Answer(n)
     /\ IF n = 204 THEN live' = NoFile /\ torn' = FALSE ELSE UNCHANGED <<live, torn>>
     /\ Machine /\ UNCHANGED <<mishaps, spoilt, job, token, saved, tokens, peers>>

\* An upload goes over the stored archive, which fopen empties.
PutOpens ==
  /\ dpc = "open"
  /\ \/ live' = Empty /\ torn' = TRUE /\ dpc' = "write" /\ UNCHANGED <<mishaps, status>>
     \/ Mishap /\ Answer(500) /\ UNCHANGED <<live, torn>>
  /\ Machine /\ UNCHANGED <<spoilt, job, token, saved, tokens, peers>>

\* What of a body has arrived: all, a part, or nothing of it after a cut head.
Arrived(r) ==
  CASE ask[r].sent = "all" -> {body[r]}
    [] ask[r].sent = "part" -> Cuts(body[r])
    [] OTHER -> {Empty}

\* An upload that is stored behind what the file held before.
PutAppends ==
  /\ dpc = "write"
  /\ \E a \in Arrived(job) :
       live' = [a EXCEPT !.entries = live.entries \o <<Entry("bin", Torn)>> \o @]
  /\ torn' = FALSE /\ Answer(201)
  /\ Machine /\ UNCHANGED <<mishaps, spoilt, job, token, saved, tokens, peers>>

\* fwrite of what arrived, unchecked, and 201 in any case.
PutWrites ==
  /\ dpc = "write"
  /\ \/ /\ live' \in Arrived(job)
        /\ torn' = (ask[job].sent # "all")
        /\ UNCHANGED mishaps
     \/ /\ Mishap
        /\ \E a \in Arrived(job) : live' \in Cuts(a)
        /\ torn' = TRUE
  /\ Answer(201)
  /\ Machine /\ UNCHANGED <<spoilt, job, token, saved, tokens, peers>>

\* Everybody connected is cut off.
AllDropped == [r \in Peers |-> IF stage[r] = "waiting" THEN "dropped" ELSE stage[r]]

\* bq_http_reply, the close, and the next accept.  One request is all that
\* BURAAQ_DOCK_ONCE asks for.
Reply ==
  /\ dpc = "reply"
  /\ reply' = IF gone[job] THEN reply ELSE [reply EXCEPT ![job] = status]
  /\ stage' = [(IF scene.once THEN AllDropped ELSE stage) EXCEPT
                 ![job] = IF gone[job] THEN "dropped" ELSE "served"]
  /\ dpc' = IF scene.once THEN "stopped" ELSE "accept"
  /\ job' = NoJob /\ status' = 0
  /\ Machine /\ UNCHANGED <<mishaps, spoilt, store, ask, cred, body, gone, torn>>

\* The process ends: who is connected is cut off, and memory is lost.
Dies ==
  /\ dpc' = "down" /\ job' = NoJob /\ token' = NoToken /\ status' = 0
  /\ stage' = AllDropped
  /\ Machine
  /\ UNCHANGED <<spoilt, saved, tokens, live, ask, cred, body, gone, reply, torn>>

\* A second send to a client that has gone raises SIGPIPE on POSIX.
Pipe == dpc = "reply" /\ gone[job] /\ scene.posix /\ Dies /\ UNCHANGED mishaps

Killed == dpc \notin {"down", "stopped"} /\ Mishap /\ Dies

Dock ==
  \/ DockStarts \/ Token \/ SaveToken \/ Bind
  \/ Read \/ Act \/ PutOpens \/ PutWrites \/ Reply
  \/ \E r \in Peers : DockAccepts(r)

Command(c) ==
  \/ Start(c) \/ Pack(c) \/ PackFails(c) \/ Close(c)
  \/ LaunchOpens(c) \/ Reads(c) \/ Opens(c) \/ Writes(c) \/ Execute(c) \/ Exits(c)
  \/ Sends(c) \/ Hears(c)

Next ==
  \/ Dock \/ Pipe \/ Killed \/ Alter
  \/ \E c \in Commands : Command(c)
  \/ \E r \in Clients : Arrives(r) \/ Leaves(r)

(* The dock's thread runs, and somebody starts it again when it has died.  *)
(* Its clients owe it nothing.                                             *)
Spec == Init /\ [][Next]_vars /\ WF_vars(Dock)

-----------------------------------------------------------------------------
(* Properties *)

\* What the command was to run.
Own(c) == IF scene.kind[c] = "launch" THEN file.entries[1].of ELSE built[c]

(* Where nothing was cut or altered and no other command ran beside it, a  *)
(* command runs the build it packed, however many older ones the unpack    *)
(* directory has seen, and whatever two that ran at once left there.  On   *)
(* POSIX nothing runs but over a file that was made executable by hand.    *)
(* (buraaq_bur_pack, buraaq_bur_launch)                                    *)
RunsOwnBuild ==
  \A c \in Commands :
    cpc[c] = "running" =>
      /\ ~spoilt /\ c \notin crowd => ran[c] = Own(c)
      /\ scene.posix => scene.runnable

Uploads == {body[r] : r \in {q \in Peers : ask[q] # NoAsk /\ ask[q].method = "PUT"}}

(* The dock holds a whole upload of a client that knew the token, or no    *)
(* archive, unless the last upload was cut, its write failed, or the dock  *)
(* died over it; and a 201 on its way to a client that sent everything,    *)
(* over a disk that took it, is for the archive that is stored.            *)
(* (bq_http_read, buraaq_dock_run)                                         *)
StoredWhole ==
  /\ ~torn => live \in {NoFile} \cup Uploads
  /\ dpc = "reply" /\ status = 201 /\ ~torn => live = body[job] /\ cred[job] # NoToken

(* Whoever copied a token from the file is let in for good, over crashes   *)
(* and restarts: no start leaves another token in memory than a file that  *)
(* somebody could have read. (bq_dock_token)                               *)
KeyholdersServed == \A r \in Peers : reply[r] = 401 => cred[r] = NoToken

\* A client that neither sends the rest nor leaves.
Held == dpc = "read" /\ ~gone[job] /\ ask[job].sent # "all"

(* Every request is answered or cut off, whatever was cut short in it,     *)
(* unless a silent client holds the dock for ever: its reads have no       *)
(* timeout, so one such client holds up all the others. (bq_http_read)     *)
DockServes ==
  ([]<>~Held) => \A r \in Peers : stage[r] = "waiting" ~> stage[r] # "waiting"
=============================================================================
